---- MODULE Spec2Model ----
\* Verification model of the EZCAD2 automation job pipeline:
\*   queue_manager.py  (Job, QueueManager: add_job, cancel_job, start/stop, worker loop)
\*   processor.py      (Processor.process_excel / process_ezd and their helpers)
\*   ezcad_controller_compat.py / ezcad_controller.py (session bookkeeping)
\* Every thread is modelled at the granularity of its shared reads and writes:
\* the queue manager takes no lock around Job objects, so each statement that
\* touches one is a step of its own.
EXTENDS Integers, Sequences, FiniteSets, TLC

\* ---------------------------------------------------------------- bounds
MaxJobs     == 2   \* Job objects ever constructed
MaxTime     == 2   \* the millisecond clock runs over 1..MaxTime
NumFiles    == 3   \* distinct file base names
NumSheets   == 2   \* distinct spreadsheets handed to concurrent jobs
MaxPriority == 2   \* priorities 1..MaxPriority
MaxWorkers  == 2   \* worker threads ever spawned
MaxThreads  == 1   \* largest max_concurrent_processes setting
MaxStops    == 2   \* stop_processing calls
MaxBatches  == 1   \* batches a loaded spreadsheet splits into
OrderJobs   == 3   \* Job objects in the enqueue-then-process scenario
MaxNotes    == 2   \* file-system notifications the watcher's callback receives
MaxLoad     == 3   \* notifications plus worker threads in the start/stop scenario
MaxCallers  == 2   \* threads calling EZCADController methods at once
MaxProcs    == 2   \* EZCAD2.exe processes on the host before a further spawn

DefaultPriority == 1   \* add_job(file_path, job_type, priority=1)
PollAttempts    == 15  \* for _ in range(15): passes of the connect loop

Files      == 1..NumFiles        \* base names, numbered in their string order
Priorities == 1..MaxPriority
Workers    == 1..MaxWorkers
Times      == 1..MaxTime
Bridges    == 1..MaxWorkers      \* one bridge thread per start_processing
Callers    == 1..MaxCallers      \* worker, launcher and GUI threads inside the controller

\* The job type a caller passes for a file: the bridge thread derives it from
\* the extension (.xls/.xlsx -> 'excel', .ezd -> 'ezd'); any other name stands
\* for a caller that passes a type the worker does not recognise.
FileType(f) == IF f % 3 = 1 THEN "excel" ELSE IF f % 3 = 2 THEN "ezd" ELSE "other"

\* ---------------------------------------------------------------- JobStatus
PENDING   == "PENDING"
RUNNING   == "RUNNING"
COMPLETED == "COMPLETED"
FAILED    == "FAILED"
CANCELED  == "CANCELED"
JobStatus == {PENDING, RUNNING, COMPLETED, FAILED, CANCELED}
Terminal  == {COMPLETED, FAILED, CANCELED}

None   == 0                      \* Python None for references and timestamps
Stamp  == 1                      \* a datetime.now() value; no code reads which
NoId   == <<0, 0>>               \* no job id
NoStr  == "None"                 \* Python None for strings
NoLock == 0                      \* EZCADController.lock is free
NoTime == -1                     \* no entry in last_events, no event yet

\* The GUI thread outside start_watching and stop_watching. op: the handler or
\* method it runs; ret: the value start_watching or stop_watching returned;
\* err: the handler showed its error dialog.
GuiIdle == [pc |-> "idle", op |-> "none", ret |-> NoStr, err |-> FALSE]

\* ------------------------------------------------------------- file patterns
\* Strings are sequences of one-character strings.
\* config_manager.py lines 46-47: the default pattern strings "*.xls;*.xlsx"
\* and "*.ezd"
DefaultExcelPattern == <<"*", ".", "x", "l", "s", ";", "*", ".", "x", "l", "s", "x">>
file_pattern_ezd == <<"*", ".", "e", "z", "d">>

\* pattern_string.split(';')
RECURSIVE Split(_)
Split(s) ==
    IF \E i \in 1..Len(s) : s[i] = ";"
    THEN LET i == CHOOSE k \in 1..Len(s) : s[k] = ";" /\ \A j \in 1..(k - 1) : s[j] # ";"
         IN  <<SubSeq(s, 1, i - 1)>> \o Split(SubSeq(s, i + 1, Len(s)))
    ELSE <<s>>

\* p.strip()
RECURSIVE strip(_)
strip(p) ==
    IF p # <<>> /\ Head(p) = " " THEN strip(Tail(p))
    ELSE IF p # <<>> /\ p[Len(p)] = " " THEN strip(SubSeq(p, 1, Len(p) - 1))
    ELSE p

\* s.startswith(t), s.endswith(t)
startswith(s, t) == Len(t) <= Len(s) /\ SubSeq(s, 1, Len(t)) = t
endswith(s, t) == Len(t) <= Len(s) /\ SubSeq(s, Len(s) - Len(t) + 1, Len(s)) = t

\* DirectoryWatcher._parse_patterns(pattern_string), lines 128-140
_parse_patterns(pattern_string) ==
    IF pattern_string = <<>> THEN <<>>
    ELSE LET pieces == Split(pattern_string)
         IN  [i \in 1..Len(pieces) |->
                 LET p == strip(pieces[i])
                 IN  IF startswith(p, <<"*", ".">>) THEN Tail(p) ELSE p]

\* FileChangeHandler._is_valid_file(path), lines 36-39, for a handler with
\* the given file_patterns
_is_valid_file(patterns, path) ==
    \E i \in 1..Len(patterns) : endswith(path, patterns[i])

\* The commands send_command maps to a key; "other" stands for any other string.
Recognized == {"red", "mark"}
Commands   == Recognized \cup {"other"}

\* A caller outside every controller method. op: the method called; cmd: the
\* command argument; ret: the value returned ("id": the window id in kwin,
\* "count": the number in count); fx: what the call sent to the window;
\* tries: passes of the connect loop; ids, count: window_ids still to visit
\* and closed_count of close_all_ezcad. History of a close_all_ezcad call:
\* snap, the ids it found; tried, those it called close_ezcad for; ok, those
\* whose close returned True; stored, whether start_ezcad stored a session
\* since its snapshot.
NoLoc == [op |-> "none", cmd |-> NoStr, ret |-> NoStr, fx |-> {}, tries |-> 0,
          ids |-> {}, count |-> 0, snap |-> {}, tried |-> {}, ok |-> {}, stored |-> FALSE]

\* ConfigManager: the sections of the configuration
ProfSections == {"Paths", "Settings"}

\* The configuration _create_default_config writes, cut down to one option
\* per section
DefaultConfig ==
    [s \in ProfSections |->
        IF s = "Paths" THEN [k \in {"watch_directory"} |-> <<>>]
        ELSE [k \in {"file_pattern_excel"} |-> <<"a">>]]

NoFile == <<>>
NoProfile == [pc |-> "new", config |-> DefaultConfig, file |-> NoFile,
              fresh |-> DefaultConfig, raised |-> FALSE]

VARIABLES
    now,            \* int(time.time() * 1000)
    heap,           \* every Job object constructed so far, by allocation order
    jobs,           \* QueueManager.jobs: job id -> Job object (index into heap)
    job_queue,      \* QueueManager.job_queue: the (priority, job_id) entries held
    should_run,     \* QueueManager.should_run
    max_threads,    \* Settings.max_concurrent_processes
    is_windows,     \* platform_utils.IS_WINDOWS
    batch_process,  \* Settings.batch_process
    last_ezd_file,  \* Paths.last_ezd_file (None when the key is absent)
    instances,      \* EZCADController.instances: the window ids tracked
    current_data,   \* ExcelHandler.current_data: file of the frame loaded last
    stop_requested, \* Processor.stop_requested
    spawned,        \* worker threads created so far
    wpc,            \* per worker: position in _process_jobs
    wkey,           \* per worker: local job_id
    wjob,           \* per worker: local job (reference into heap)
    wres,           \* per worker: local result of the job body
    wexc,           \* per worker: message of the exception the body raised
    wwin,           \* per worker: local window_id inside the spreadsheet body
    wbatch,         \* per worker: batches still to process
    cpc,            \* canceller (GUI thread): position in cancel_job
    ckey,           \* canceller: job_id argument
    cjob,           \* canceller: the Job object the call found (None: no such id)
    cbefore,        \* canceller: the status the call found
    cret,           \* canceller: the value the call returns
    ccalled,        \* history: Job objects a finished cancel_job call addressed
    cok,            \* history: Job objects for which cancel_job returned True
    invoked,        \* history: how often the processor was invoked per Job object
    stops,          \* history: number of stop_processing calls
    auto_trigger,   \* Settings.auto_trigger
    monitoring_enabled, \* Monitoring.enabled
    is_running,     \* DirectoryWatcher.is_running
    file_queue,     \* QueueManager.file_queue: the notifications held
    bspawned,       \* bridge threads (_process_file_queue) created so far
    bpc,            \* per bridge thread: position in _process_file_queue
    bfile,          \* per bridge thread: local file_path
    notified,       \* history: calls of DirectoryWatcher._file_callback
    forwarded,      \* history: notifications _file_callback put on file_queue
    multiple_instances, \* Settings.multiple_instances
    procs,          \* EZCAD2.exe processes running on the host
    lock,           \* EZCADController.lock: the caller holding it (NoLock: free)
    kpc,            \* per caller: position inside a controller method
    kwin,           \* per caller: window_id (argument, local or value returned)
    kloc,           \* per caller: the other locals of the method it is in, and its return value
    observer,       \* DirectoryWatcher.observer's thread: "off", "alive" or "stopping"
    watch_dir_ok,   \* Monitoring.watch_directory names an existing directory
    start_monitoring_button,  \* the Start Monitoring button is NORMAL and the
                    \* Stop Monitoring button DISABLED (FALSE: the other way round)
    events,         \* history: events the observer handed to FileChangeHandler
    gui,            \* GUI thread: position in start_watching/stop_watching and its caller
    wall,           \* time.time() as FileChangeHandler reads it, in ticks
    last_events,    \* FileChangeHandler.last_events: path -> time (NoTime: no key)
    emitted,        \* history: per path, the times the handler called its callback
    seen,           \* history: per path, the time of the last event the handler got
    file_pattern_excel,  \* Settings.file_pattern_excel, a string (sequence of characters)
    file_patterns,  \* FileChangeHandler.file_patterns: a list of strings
    src_path,       \* history: the last path _is_valid_file was asked about
    valid,          \* history: what _is_valid_file returned for src_path
    wsplit,         \* per worker: the file whose frame get_batch_data split into
                    \* the batches of process_excel (None: outside the batch loop)
    sweep,          \* history: the calls of clear_completed_jobs, the last argument and return value
    prof            \* ConfigManager: the configuration, the profile file written from it and a fresh ConfigManager that loads the file

vars == <<now, heap, jobs, job_queue, should_run, max_threads, is_windows,
          batch_process, last_ezd_file, instances,
          current_data, stop_requested, spawned, wpc, wkey, wjob, wres, wexc, wwin, wbatch,
          cpc, ckey, cjob, cbefore, cret, ccalled, cok, invoked, stops,
          auto_trigger, monitoring_enabled, is_running, file_queue, bspawned,
          bpc, bfile,
          notified, forwarded, multiple_instances, procs, lock, kpc, kwin, kloc,
          observer, watch_dir_ok, start_monitoring_button, events, gui, wall,
          last_events, emitted, seen, file_pattern_excel, file_patterns, src_path, valid,
          wsplit,
          sweep,
          prof>>

cfgVars  == <<max_threads, is_windows, batch_process>>
auxVars  == <<sweep, prof>>
extVars  == <<wsplit, auxVars>>
ctlVars  == <<last_ezd_file, instances, current_data, stop_requested>>
workVars == <<wpc, wkey, wjob, wres, wexc, wwin, wbatch>>
canVars  == <<cpc, ckey, cjob, cbefore, cret, ccalled, cok>>
setVars  == <<auto_trigger, monitoring_enabled, is_running, observer, watch_dir_ok,
             start_monitoring_button>>
evVars   == <<last_events, emitted, seen>>
patVars  == <<file_pattern_excel, file_patterns, src_path, valid>>
hVars    == <<gui, wall, events, evVars, patVars>>
brVars   == <<file_queue, bspawned, bpc, bfile, notified, forwarded>>
kVars    == <<multiple_instances, procs, lock, kpc, kwin, kloc>>

\* ---------------------------------------------------------------- results
\* The dict a job body returns; kind names which return statement built it.
NoResult == [kind |-> "None", window_id |-> None, processed |-> FALSE]
ErrorDict == [kind |-> "error", window_id |-> None, processed |-> FALSE]
EzdOpened(w) == [kind |-> "ezd_ok", window_id |-> w, processed |-> TRUE]
EzdNotOpened == [kind |-> "ezd_fail", window_id |-> None, processed |-> FALSE]
EntireFile(ok) == [kind |-> "entire", window_id |-> None, processed |-> ok]
BatchResults(ok) == [kind |-> "batch", window_id |-> None, processed |-> ok]

\* ---------------------------------------------------------------- Job
\* Job.__init__: the id is "job_<ms>_<basename>"
JobId(ms, file) == <<ms, file>>

NewJob(file, job_type, priority) ==
    [id |-> JobId(now, file), file_path |-> file, job_type |-> job_type,
     priority |-> priority, status |-> PENDING, added_time |-> now,
     start_time |-> None, end_time |-> None, result |-> NoResult,
     error |-> NoStr]

\* str.__lt__ on two job ids: the millisecond stamp has the same number of
\* digits for every date from 2001 to 2286, so the ids compare by stamp and
\* then by base name.
IdLess(a, b) == \/ a[1] < b[1]
                \/ a[1] = b[1] /\ a[2] < b[2]

\* tuple.__lt__ on two (priority, job_id) queue entries
EntryLess(e, f) == \/ e[1] < f[1]
                   \/ e[1] = f[1] /\ IdLess(e[2], f[2])

\* PriorityQueue.get: position of an entry no other entry is smaller than
MinIndex(q) == CHOOSE i \in 1..Len(q) : \A k \in 1..Len(q) : ~EntryLess(q[k], q[i])

RemoveAt(q, i) == SubSeq(q, 1, i - 1) \o SubSeq(q, i + 1, Len(q))

DictPut(d, k, v) == [x \in DOMAIN d \cup {k} |-> IF x = k THEN v ELSE d[x]]

\* ---------------------------------------------------------------- Init
Init ==
    /\ now = 1
    /\ heap = <<>>
    /\ jobs = [k \in {} |-> None]
    /\ job_queue = <<>>
    /\ should_run = FALSE
    /\ max_threads \in 1..MaxThreads
    /\ is_windows \in BOOLEAN
    /\ batch_process \in BOOLEAN
    /\ last_ezd_file = None
    /\ instances = {}
    /\ current_data = None
    /\ stop_requested = FALSE
    /\ spawned = 0
    /\ wpc = [w \in Workers |-> "unborn"]
    /\ wkey = [w \in Workers |-> NoId]
    /\ wjob = [w \in Workers |-> None]
    /\ wres = [w \in Workers |-> NoResult]
    /\ wexc = [w \in Workers |-> NoStr]
    /\ wwin = [w \in Workers |-> None]
    /\ wbatch = [w \in Workers |-> 0]
    /\ cpc = "idle"
    /\ ckey = NoId
    /\ cjob = None
    /\ cbefore = NoStr
    /\ cret = FALSE
    /\ ccalled = {}
    /\ cok = {}
    /\ invoked = <<>>
    /\ stops = 0
    /\ auto_trigger \in BOOLEAN
    /\ monitoring_enabled \in BOOLEAN
    /\ is_running = FALSE
    /\ file_queue = <<>>
    /\ bspawned = 0
    /\ bpc = [b \in Bridges |-> "unborn"]
    /\ bfile = [b \in Bridges |-> None]
    /\ notified = 0
    /\ forwarded = 0
    /\ multiple_instances = FALSE
    /\ procs = 0
    /\ lock = NoLock
    /\ kpc = [c \in Callers |-> "idle"]
    /\ kwin = [c \in Callers |-> None]
    /\ kloc = [c \in Callers |-> NoLoc]
    /\ observer = "off"
    /\ watch_dir_ok = FALSE
    /\ start_monitoring_button = TRUE
    /\ events = 0
    /\ gui = GuiIdle
    /\ wall = 0
    /\ last_events = [f \in Files |-> NoTime]
    /\ emitted = [f \in Files |-> {}]
    /\ seen = [f \in Files |-> NoTime]
    /\ file_pattern_excel = DefaultExcelPattern
    /\ file_patterns = <<>>
    /\ src_path = <<>>
    /\ valid = FALSE
    /\ wsplit = [w \in Workers |-> None]
    /\ sweep = [calls |-> 0, max_age_hours |-> 0, removed_count |-> 0]
    /\ prof = NoProfile

\* The clock moves on between any two steps.
Tick ==
    /\ now < MaxTime
    /\ now' = now + 1
    /\ UNCHANGED <<heap, jobs, job_queue, should_run, cfgVars, extVars, hVars, kVars, setVars, brVars, ctlVars, spawned,
                   workVars, canVars, invoked, stops>>

\* ---------------------------------------------------------------- QueueManager
\* add_job(file_path, job_type, priority)
put_job(file, job_type, priority) ==
    /\ LET job == NewJob(file, job_type, priority) IN
         /\ heap' = Append(heap, job)
         /\ jobs' = DictPut(jobs, job.id, Len(heap) + 1)
         /\ job_queue' = Append(job_queue, <<job.priority, job.id>>)
    /\ invoked' = Append(invoked, 0)

\* add_job called from outside the queue manager's own threads
add_job(file, job_type, priority) ==
    /\ put_job(file, job_type, priority)
    /\ UNCHANGED <<now, should_run, cfgVars, extVars, hVars, kVars, setVars, brVars, ctlVars, spawned,
                   workVars, canVars, stops>>

\* start_processing without the test of line 128: threads are started on
\* every call
start_processing_unchecked ==
    /\ spawned + max_threads <= MaxWorkers
    /\ should_run' = TRUE
    /\ spawned' = spawned + max_threads
    /\ wpc' = [w \in Workers |->
                 IF w > spawned /\ w <= spawned + max_threads
                 THEN "loop" ELSE wpc[w]]
    /\ bspawned' = bspawned + 1
    /\ bpc' = [bpc EXCEPT ![bspawned + 1] = "loop"]
    /\ UNCHANGED <<now, heap, jobs, job_queue, cfgVars, extVars, hVars, kVars, setVars, ctlVars, wkey, wjob,
                   wres, wexc, wwin, wbatch, canVars, invoked, stops,
                   file_queue, bfile, notified, forwarded>>

\* start_processing(): return when already running; else set should_run, start
\* the bridge thread (lines 135-137) and max_threads workers (lines 143-147)
start_processing ==
    IF should_run
    THEN UNCHANGED vars
    ELSE /\ spawned + max_threads <= MaxWorkers
         /\ should_run' = TRUE
         /\ spawned' = spawned + max_threads
         /\ wpc' = [w \in Workers |->
                      IF w > spawned /\ w <= spawned + max_threads
                      THEN "loop" ELSE wpc[w]]
         /\ bspawned' = bspawned + 1
         /\ bpc' = [bpc EXCEPT ![bspawned + 1] = "loop"]
         /\ UNCHANGED <<now, heap, jobs, job_queue, cfgVars, extVars, hVars, kVars, setVars, ctlVars, wkey, wjob,
                        wres, wexc, wwin, wbatch, canVars, invoked, stops,
                        file_queue, bfile, notified, forwarded>>

\* stop_processing()
stop_processing ==
    /\ should_run' = FALSE
    /\ stops' = stops + 1
    /\ UNCHANGED <<now, heap, jobs, job_queue, cfgVars, extVars, hVars, kVars, setVars, brVars, ctlVars, spawned,
                   workVars, canVars, invoked>>

\* ---------------------------------------------------------------- EZCADController
\* start_ezcad(ezd_file) returning r (a window id, or None). The window id is
\* "sim_ezcad_<ms>" or "ezcad_<ms>", and instances[window_id] = {...} stores
\* under that key whether or not the key is already present.
\* Outside Windows the call only books the session. On Windows it returns None
\* when the executable or the file is missing, when EZCAD2.exe already runs and
\* multiple_instances is off, when the spawn raises, or when the window never
\* shows within the polling budget: all of these depend on the host alone.
start_ezcad(r) ==
    IF ~is_windows
    THEN /\ r = now
         /\ instances' = instances \cup {now}
    ELSE \/ /\ r = None
            /\ UNCHANGED instances
         \/ /\ r = now
            /\ instances' = instances \cup {now}

\* close_ezcad(window_id): an untracked id returns False; a simulated session is
\* dropped; a real one is dropped unless window.close() raises.
close_ezcad(window_id) ==
    IF window_id \notin instances
    THEN UNCHANGED instances
    ELSE IF ~is_windows
         THEN instances' = instances \ {window_id}
         ELSE \/ UNCHANGED instances
              \/ instances' = instances \ {window_id}

\* ---------------------------------------------------------------- _process_jobs
SetField(u, f, v) == [heap EXCEPT ![u] = [@ EXCEPT ![f] = v]]

Goto(w, l) == wpc' = [wpc EXCEPT ![w] = l]

\* the loop of line 188 without its test: while True
W_loop_forever(w) ==
    /\ wpc[w] = "loop"
    /\ Goto(w, "get")
    /\ UNCHANGED <<now, heap, jobs, job_queue, should_run, cfgVars, extVars, hVars, kVars, setVars, brVars,
                   ctlVars, spawned, wkey, wjob, wres, wexc, wwin, wbatch, canVars,
                   invoked, stops>>

\* line 188: while self.should_run
W_loop(w) ==
    /\ wpc[w] = "loop"
    /\ Goto(w, IF should_run THEN "get" ELSE "exited")
    /\ UNCHANGED <<now, heap, jobs, job_queue, should_run, cfgVars, extVars, hVars, kVars, setVars, brVars, ctlVars, spawned,
                   wkey, wjob, wres, wexc, wwin, wbatch, canVars, invoked, stops>>

\* line 191: job_queue.get(timeout=1.0); queue.Empty goes back to the loop test
W_get(w) ==
    /\ wpc[w] = "get"
    /\ IF job_queue = <<>>
       THEN /\ Goto(w, "loop")
            /\ UNCHANGED <<job_queue, wkey>>
       ELSE LET i == MinIndex(job_queue) IN
            /\ wkey' = [wkey EXCEPT ![w] = job_queue[i][2]]
            /\ job_queue' = RemoveAt(job_queue, i)
            /\ Goto(w, "check")
    /\ UNCHANGED <<now, heap, jobs, should_run, cfgVars, extVars, hVars, kVars, setVars, brVars, ctlVars, spawned,
                   wjob, wres, wexc, wwin, wbatch, canVars, invoked, stops>>

\* lines 192-197: job = self.jobs.get(job_id); skip it unless it is PENDING
W_check(w) ==
    /\ wpc[w] = "check"
    /\ IF wkey[w] \notin DOMAIN jobs \/ heap[jobs[wkey[w]]].status # PENDING
       THEN /\ Goto(w, "loop")
            /\ wkey' = [wkey EXCEPT ![w] = NoId]
            /\ UNCHANGED wjob
       ELSE /\ Goto(w, "mark")
            /\ wjob' = [wjob EXCEPT ![w] = jobs[wkey[w]]]
            /\ UNCHANGED wkey
    /\ UNCHANGED <<now, heap, jobs, job_queue, should_run, cfgVars, extVars, hVars, kVars, setVars, brVars, ctlVars, spawned,
                   wres, wexc, wwin, wbatch, canVars, invoked, stops>>

\* line 201: job.status = JobStatus.RUNNING
W_mark(w) ==
    /\ wpc[w] = "mark"
    /\ heap' = SetField(wjob[w], "status", RUNNING)
    /\ Goto(w, "stamp")
    /\ UNCHANGED <<now, jobs, job_queue, should_run, cfgVars, extVars, hVars, kVars, setVars, brVars, ctlVars, spawned,
                   wkey, wjob, wres, wexc, wwin, wbatch, canVars, invoked, stops>>

\* line 202: job.start_time = datetime.now()
W_stamp(w) ==
    /\ wpc[w] = "stamp"
    /\ heap' = SetField(wjob[w], "start_time", Stamp)
    /\ Goto(w, "body")
    /\ UNCHANGED <<now, jobs, job_queue, should_run, cfgVars, extVars, hVars, kVars, setVars, brVars, ctlVars, spawned,
                   wkey, wjob, wres, wexc, wwin, wbatch, canVars, invoked, stops>>

\* ---------------------------------------------------------------- Processor
\* A process_ezd that closes the session it started before returning.
process_ezd_closing(w) ==
    \E r \in {None} \cup Times :
       /\ IF ~is_windows THEN r = now ELSE r \in {None, now}
       /\ instances' = instances \ {r}
       /\ IF r # None
          THEN /\ last_ezd_file' = heap[wjob[w]].file_path
               /\ wres' = [wres EXCEPT ![w] = EzdOpened(r)]
          ELSE /\ wres' = [wres EXCEPT ![w] = EzdNotOpened]
               /\ UNCHANGED last_ezd_file

\* process_ezd(ezd_file), lines 184-208: start_ezcad, then on a window id
\* record the file in the configuration and return the success dict; an
\* exception of save_config is turned into {'error': ...} by line 206.
process_ezd(w) ==
    \E r \in {None} \cup Times :
       /\ start_ezcad(r)
       /\ IF r # None
          THEN /\ last_ezd_file' = heap[wjob[w]].file_path
               /\ \/ wres' = [wres EXCEPT ![w] = EzdOpened(r)]
                  \/ wres' = [wres EXCEPT ![w] = ErrorDict]
          ELSE /\ wres' = [wres EXCEPT ![w] = EzdNotOpened]
               /\ UNCHANGED last_ezd_file

\* the dispatch without the except clause of line 216: the ValueError of an
\* unknown job type ends the thread
W_body_uncaught(w) ==
    /\ wpc[w] = "body"
    /\ LET t == heap[wjob[w]].job_type IN
       \/ /\ t = "excel"
          /\ invoked' = [invoked EXCEPT ![wjob[w]] = @ + 1]
          /\ Goto(w, "xl_load")
          /\ UNCHANGED <<wres, wexc, last_ezd_file, instances>>
       \/ /\ t = "ezd"
          /\ invoked' = [invoked EXCEPT ![wjob[w]] = @ + 1]
          /\ process_ezd(w)
          /\ Goto(w, "store")
          /\ UNCHANGED wexc
       \/ /\ t \notin {"excel", "ezd"}
          /\ wexc' = [wexc EXCEPT ![w] = "Unknown job type"]
          /\ Goto(w, "exited")
          /\ UNCHANGED <<invoked, wres, last_ezd_file, instances>>
    /\ UNCHANGED <<now, heap, jobs, job_queue, should_run, cfgVars, extVars, hVars, kVars, setVars, brVars, current_data,
                   stop_requested, spawned, wkey, wjob, wwin, wbatch,
                   canVars, stops>>

\* lines 205-210: dispatch on job.job_type
W_body(w) ==
    /\ wpc[w] = "body"
    /\ LET t == heap[wjob[w]].job_type IN
       \/ /\ t = "excel"
          /\ invoked' = [invoked EXCEPT ![wjob[w]] = @ + 1]
          /\ Goto(w, "xl_load")
          /\ UNCHANGED <<wres, wexc, last_ezd_file, instances>>
       \/ /\ t = "ezd"
          /\ invoked' = [invoked EXCEPT ![wjob[w]] = @ + 1]
          /\ process_ezd(w)
          /\ Goto(w, "store")
          /\ UNCHANGED wexc
       \/ /\ t \notin {"excel", "ezd"}
          /\ wexc' = [wexc EXCEPT ![w] = "Unknown job type"]
          /\ Goto(w, "store")
          /\ UNCHANGED <<invoked, wres, last_ezd_file, instances>>
    /\ UNCHANGED <<now, heap, jobs, job_queue, should_run, cfgVars, extVars, hVars, kVars, setVars, brVars, current_data,
                   stop_requested, spawned, wkey, wjob, wwin, wbatch,
                   canVars, stops>>

\* process_excel lines 40-42: load_excel returns the frame, or None when the
\* file is missing or unreadable, and then line 81 returns {'error': ...}
X_load(w) ==
    /\ wpc[w] = "xl_load"
    /\ \/ /\ current_data' = heap[wjob[w]].file_path
          /\ Goto(w, IF batch_process THEN "xl_split" ELSE "xl_start")
          /\ UNCHANGED wres
       \/ /\ wres' = [wres EXCEPT ![w] = ErrorDict]
          /\ Goto(w, "store")
          /\ UNCHANGED current_data
    /\ UNCHANGED <<now, heap, jobs, job_queue, should_run, cfgVars, extVars, hVars, kVars, setVars, brVars, last_ezd_file,
                   instances, stop_requested, spawned, wkey, wjob,
                   wexc, wwin, wbatch, canVars, invoked, stops>>

\* lines 49-58: get_batch_data splits whatever frame the handler holds now
X_split(w) ==
    /\ wpc[w] = "xl_split"
    /\ \E n \in 0..MaxBatches :
          /\ current_data = None => n = 0
          /\ wbatch' = [wbatch EXCEPT ![w] = n]
    /\ wsplit' = [wsplit EXCEPT ![w] = current_data]
    /\ wres' = [wres EXCEPT ![w] = BatchResults(TRUE)]
    /\ Goto(w, "xl_loop")
    /\ UNCHANGED <<now, heap, jobs, job_queue, should_run, cfgVars, auxVars, hVars, kVars, setVars, brVars, ctlVars, spawned,
                   wkey, wjob, wexc, wwin, canVars, invoked, stops>>

\* lines 61-68 and _process_batch lines 96-111: leave the loop when no batch is
\* left or a stop was requested; else look up the EZD file and start EZCAD
X_loop(w) ==
    /\ wpc[w] = "xl_loop"
    /\ IF wbatch[w] = 0 \/ stop_requested
       THEN /\ Goto(w, "store")
            /\ wbatch' = [wbatch EXCEPT ![w] = 0]
            /\ wsplit' = [wsplit EXCEPT ![w] = None]
            /\ UNCHANGED <<instances, wwin>>
       ELSE \/ /\ wbatch' = [wbatch EXCEPT ![w] = @ - 1]
               /\ Goto(w, "xl_loop")
               /\ UNCHANGED <<instances, wwin, wsplit>>
            \/ /\ last_ezd_file # None
               /\ UNCHANGED wsplit
               /\ \E r \in {None} \cup Times :
                     /\ start_ezcad(r)
                     /\ IF r = None
                        THEN /\ wbatch' = [wbatch EXCEPT ![w] = @ - 1]
                             /\ Goto(w, "xl_loop")
                             /\ UNCHANGED wwin
                        ELSE /\ wwin' = [wwin EXCEPT ![w] = r]
                             /\ Goto(w, "xl_rows")
                             /\ UNCHANGED wbatch
    /\ UNCHANGED <<now, heap, jobs, job_queue, should_run, cfgVars, auxVars, hVars, kVars, setVars, brVars, last_ezd_file,
                   current_data, stop_requested, spawned, wkey, wjob, wres,
                   wexc, canVars, invoked, stops>>

\* _process_batch lines 114-134: the rows, then close_ezcad in the finally
\* clause; an exception of the row loop reaches line 81 of process_excel
X_rows(w) ==
    /\ wpc[w] = "xl_rows"
    /\ close_ezcad(wwin[w])
    /\ wwin' = [wwin EXCEPT ![w] = None]
    /\ \/ /\ wbatch' = [wbatch EXCEPT ![w] = @ - 1]
          /\ Goto(w, "xl_loop")
          /\ UNCHANGED <<wres, wsplit>>
       \/ /\ wbatch' = [wbatch EXCEPT ![w] = 0]
          /\ wsplit' = [wsplit EXCEPT ![w] = None]
          /\ wres' = [wres EXCEPT ![w] = ErrorDict]
          /\ Goto(w, "store")
    /\ UNCHANGED <<now, heap, jobs, job_queue, should_run, cfgVars, auxVars, hVars, kVars, setVars, brVars, last_ezd_file,
                   current_data, stop_requested, spawned, wkey, wjob, wexc,
                   canVars, invoked, stops>>

\* _process_entire_file lines 145-160: the EZD file must be configured and
\* present and EZCAD must start, else the result says processed = False
X_start(w) ==
    /\ wpc[w] = "xl_start"
    /\ \/ /\ wres' = [wres EXCEPT ![w] = EntireFile(FALSE)]
          /\ Goto(w, "store")
          /\ UNCHANGED <<instances, wwin>>
       \/ /\ last_ezd_file # None
          /\ \E r \in {None} \cup Times :
                /\ start_ezcad(r)
                /\ IF r = None
                   THEN /\ wres' = [wres EXCEPT ![w] = EntireFile(FALSE)]
                        /\ Goto(w, "store")
                        /\ UNCHANGED wwin
                   ELSE /\ wwin' = [wwin EXCEPT ![w] = r]
                        /\ Goto(w, "xl_close")
                        /\ UNCHANGED wres
    /\ UNCHANGED <<now, heap, jobs, job_queue, should_run, cfgVars, extVars, hVars, kVars, setVars, brVars, last_ezd_file,
                   current_data, stop_requested, spawned, wkey, wjob,
                   wexc, wbatch, canVars, invoked, stops>>

\* _process_entire_file lines 166-172: sleep, send 'mark', close_ezcad
X_close(w) ==
    /\ wpc[w] = "xl_close"
    /\ close_ezcad(wwin[w])
    /\ wwin' = [wwin EXCEPT ![w] = None]
    /\ wres' = [wres EXCEPT ![w] = EntireFile(TRUE)]
    /\ Goto(w, "store")
    /\ UNCHANGED <<now, heap, jobs, job_queue, should_run, cfgVars, extVars, hVars, kVars, setVars, brVars, last_ezd_file,
                   current_data, stop_requested, spawned, wkey, wjob, wexc, wbatch,
                   canVars, invoked, stops>>

\* line 212: job.result = result, or line 217: job.error = str(e)
W_store(w) ==
    /\ wpc[w] = "store"
    /\ heap' = IF wexc[w] = NoStr
               THEN SetField(wjob[w], "result", wres[w])
               ELSE SetField(wjob[w], "error", wexc[w])
    /\ Goto(w, "status")
    /\ UNCHANGED <<now, jobs, job_queue, should_run, cfgVars, extVars, hVars, kVars, setVars, brVars, ctlVars, spawned,
                   wkey, wjob, wres, wexc, wwin, wbatch, canVars, invoked, stops>>

\* line 213: job.status = COMPLETED, or line 218: job.status = FAILED
W_status(w) ==
    /\ wpc[w] = "status"
    /\ heap' = SetField(wjob[w], "status",
                        IF wexc[w] = NoStr THEN COMPLETED ELSE FAILED)
    /\ Goto(w, "end")
    /\ UNCHANGED <<now, jobs, job_queue, should_run, cfgVars, extVars, hVars, kVars, setVars, brVars, ctlVars, spawned,
                   wkey, wjob, wres, wexc, wwin, wbatch, canVars, invoked, stops>>

\* lines 221-222: job.end_time = datetime.now(); task_done(); next iteration
W_end(w) ==
    /\ wpc[w] = "end"
    /\ heap' = SetField(wjob[w], "end_time", Stamp)
    /\ Goto(w, "loop")
    /\ wkey' = [wkey EXCEPT ![w] = NoId]
    /\ wjob' = [wjob EXCEPT ![w] = None]
    /\ wres' = [wres EXCEPT ![w] = NoResult]
    /\ wexc' = [wexc EXCEPT ![w] = NoStr]
    /\ UNCHANGED <<now, jobs, job_queue, should_run, cfgVars, extVars, hVars, kVars, setVars, brVars, ctlVars, spawned,
                   wwin, wbatch, canVars, invoked, stops>>

\* EZCADAutomationApp._stop_processing (the Stop Processing button):
\* queue_manager.stop_processing(), then processor.request_stop()
StopButton ==
    /\ should_run' = FALSE
    /\ stop_requested' = TRUE
    /\ stops' = stops + 1
    /\ UNCHANGED <<now, heap, jobs, job_queue, cfgVars, extVars, hVars, kVars, setVars, brVars, last_ezd_file, instances,
                   current_data, spawned, workVars, canVars, invoked>>

\* ---------------------------------------------------------------- watcher and bridge
\* EZCADAutomationApp._apply_settings: the Enable Monitoring, Auto-Trigger and
\* Allow Multiple EZCAD Instances check boxes and the watch directory are
\* written to the configuration
apply_settings(m, a, mi, wd) ==
    /\ monitoring_enabled' = m
    /\ auto_trigger' = a
    /\ multiple_instances' = mi
    /\ watch_dir_ok' = wd
    /\ UNCHANGED <<procs, lock, kpc, kwin, kloc>>
    /\ UNCHANGED <<is_running, observer, start_monitoring_button, now, heap, jobs, job_queue, should_run, cfgVars, extVars, hVars,
                   ctlVars, spawned, workVars, canVars, invoked, stops, brVars>>

\* start_watching lines 90-99 and FileChangeHandler.__init__ (lines 21-24):
\* the pattern strings are parsed and the new handler gets the two lists, one
\* after the other, and an empty last_events
NewHandler ==
    /\ file_patterns' = _parse_patterns(file_pattern_excel) \o _parse_patterns(file_pattern_ezd)
    /\ last_events' = [f \in Files |-> NoTime]
    /\ emitted' = [f \in Files |-> {}]
    /\ seen' = [f \in Files |-> NoTime]

\* The observer's thread is alive: it dispatches events to the handler
Dispatching == observer \in {"alive", "stopping"}

\* EZCADAutomationApp._start_monitoring, the Start Monitoring button's command,
\* with a valid directory, as one step: the directory and Monitoring.enabled
\* are written to the configuration, start_watching() starts an observer with
\* a new handler unless the watcher already runs, and the buttons are switched
\* when it returned True
_start_monitoring ==
    /\ start_monitoring_button
    /\ monitoring_enabled' = TRUE
    /\ watch_dir_ok' = TRUE
    /\ is_running' = TRUE
    /\ IF is_running
       THEN UNCHANGED <<observer, evVars, file_patterns, start_monitoring_button>>
       ELSE observer' = "alive" /\ NewHandler /\ start_monitoring_button' = FALSE
    /\ UNCHANGED <<auto_trigger, now, heap, jobs, job_queue, should_run, cfgVars, extVars, gui, wall,
                   events, file_pattern_excel, src_path, valid, kVars, ctlVars, spawned, workVars, canVars, invoked, stops, brVars>>

\* EZCADAutomationApp._stop_monitoring, the Stop Monitoring button's command,
\* as one step: stop_watching() stops and joins the observer, then
\* Monitoring.enabled is cleared and the buttons are switched back
_stop_monitoring ==
    /\ ~start_monitoring_button
    /\ is_running' = FALSE
    /\ observer' = IF is_running THEN "off" ELSE observer
    /\ monitoring_enabled' = FALSE
    /\ start_monitoring_button' = TRUE
    /\ UNCHANGED <<auto_trigger, watch_dir_ok, now, heap, jobs, job_queue, should_run, cfgVars, extVars,
                   hVars, kVars, ctlVars, spawned, workVars, canVars, invoked, stops, brVars>>

\* The effect of DirectoryWatcher._file_callback(file_path, event_type): the
\* notification is put on file_queue when Monitoring.enabled is set
callback(f) ==
    /\ notified' = notified + 1
    /\ IF monitoring_enabled
       THEN /\ file_queue' = Append(file_queue, f)
            /\ forwarded' = forwarded + 1
       ELSE UNCHANGED <<file_queue, forwarded>>

\* DirectoryWatcher._file_callback(file_path, event_type), called by the
\* observer thread for a file that passed FileChangeHandler's pattern and
\* debounce
_file_callback(f) ==
    /\ Dispatching
    /\ callback(f)
    /\ UNCHANGED <<now, heap, jobs, job_queue, should_run, cfgVars, extVars, hVars, kVars, setVars, ctlVars,
                   spawned, workVars, canVars, invoked, stops, bspawned, bpc, bfile>>

BGoto(b, l) == bpc' = [bpc EXCEPT ![b] = l]

\* _process_file_queue line 158: while self.should_run
B_loop(b) ==
    /\ bpc[b] = "loop"
    /\ BGoto(b, IF should_run THEN "get" ELSE "exited")
    /\ UNCHANGED <<now, heap, jobs, job_queue, should_run, cfgVars, extVars, hVars, kVars, setVars, ctlVars,
                   spawned, workVars, canVars, invoked, stops,
                   file_queue, bspawned, bfile, notified, forwarded>>

\* line 161: file_queue.get(timeout=1.0); queue.Empty goes back to the loop test
B_get(b) ==
    /\ bpc[b] = "get"
    /\ IF file_queue = <<>>
       THEN /\ BGoto(b, "loop")
            /\ UNCHANGED <<file_queue, bfile>>
       ELSE /\ bfile' = [bfile EXCEPT ![b] = Head(file_queue)]
            /\ file_queue' = Tail(file_queue)
            /\ BGoto(b, "add")
    /\ UNCHANGED <<now, heap, jobs, job_queue, should_run, cfgVars, extVars, hVars, kVars, setVars, ctlVars,
                   spawned, workVars, canVars, invoked, stops,
                   bspawned, notified, forwarded>>

\* lines 164-175: by extension add an 'excel' or an 'ezd' job with the default
\* priority, or only log a warning
B_add(b) ==
    /\ bpc[b] = "add"
    /\ IF FileType(bfile[b]) \in {"excel", "ezd"}
       THEN put_job(bfile[b], FileType(bfile[b]), DefaultPriority)
       ELSE UNCHANGED <<heap, jobs, job_queue, invoked>>
    /\ bfile' = [bfile EXCEPT ![b] = None]
    /\ BGoto(b, "loop")
    /\ UNCHANGED <<now, should_run, cfgVars, extVars, hVars, kVars, setVars, ctlVars, spawned, workVars,
                   canVars, stops, file_queue, bspawned, notified, forwarded>>

BridgeStep(b) == B_loop(b) \/ B_get(b) \/ B_add(b)

\* ---------------------------------------------------------------- cancel_job
\* the test of line 102 written as "not finished yet": a RUNNING job passes too
C_test_lax(k) ==
    /\ cpc = "idle"
    /\ ckey' = k
    /\ cjob' = IF k \in DOMAIN jobs THEN jobs[k] ELSE None
    /\ cbefore' = IF k \in DOMAIN jobs THEN heap[jobs[k]].status ELSE NoStr
    /\ IF k \in DOMAIN jobs /\ heap[jobs[k]].status \in {PENDING, RUNNING}
       THEN /\ cpc' = "set"
            /\ UNCHANGED cret
       ELSE /\ cpc' = "ret"
            /\ cret' = FALSE
    /\ UNCHANGED <<now, heap, jobs, job_queue, should_run, cfgVars, extVars, hVars, kVars, setVars, brVars, ctlVars, spawned,
                   workVars, ccalled, cok, invoked, stops>>

\* cancel_job(job_id) is called from the GUI thread, one call at a time.
\* line 102: the test; lines 106-108: the failing return
C_test(k) ==
    /\ cpc = "idle"
    /\ ckey' = k
    /\ cjob' = IF k \in DOMAIN jobs THEN jobs[k] ELSE None
    /\ cbefore' = IF k \in DOMAIN jobs THEN heap[jobs[k]].status ELSE NoStr
    /\ IF k \in DOMAIN jobs /\ heap[jobs[k]].status = PENDING
       THEN /\ cpc' = "set"
            /\ UNCHANGED cret
       ELSE /\ cpc' = "ret"
            /\ cret' = FALSE
    /\ UNCHANGED <<now, heap, jobs, job_queue, should_run, cfgVars, extVars, hVars, kVars, setVars, brVars, ctlVars, spawned,
                   workVars, ccalled, cok, invoked, stops>>

\* lines 103-105: self.jobs[job_id].status = CANCELED; return True
C_set ==
    /\ cpc = "set"
    /\ heap' = SetField(jobs[ckey], "status", CANCELED)
    /\ cpc' = "ret"
    /\ cret' = TRUE
    /\ cjob' = jobs[ckey]
    /\ UNCHANGED <<now, jobs, job_queue, should_run, cfgVars, extVars, hVars, kVars, setVars, brVars, ctlVars, spawned,
                   workVars, ckey, cbefore, ccalled, cok, invoked, stops>>

\* the caller takes the return value
C_return ==
    /\ cpc = "ret"
    /\ cpc' = "idle"
    /\ ccalled' = IF cjob = None THEN ccalled ELSE ccalled \cup {cjob}
    /\ cok' = IF cret THEN cok \cup {cjob} ELSE cok
    /\ ckey' = NoId
    /\ cjob' = None
    /\ cbefore' = NoStr
    /\ cret' = FALSE
    /\ UNCHANGED <<now, heap, jobs, job_queue, should_run, cfgVars, extVars, hVars, kVars, setVars, brVars, ctlVars, spawned,
                   workVars, invoked, stops>>

\* ---------------------------------------------------------------- Next
\* the ids a caller asks to cancel: every id in the collection and an unknown one
CancelIds == DOMAIN jobs \cup {NoId}

WorkerStep(w) ==
    \/ W_loop(w) \/ W_get(w) \/ W_check(w) \/ W_mark(w) \/ W_stamp(w)
    \/ W_body(w) \/ W_store(w) \/ W_status(w) \/ W_end(w)

\* the spreadsheet body without batches (_process_entire_file)
EntireStep(w) == X_load(w) \/ X_start(w) \/ X_close(w)

\* the spreadsheet body in batch mode (_process_batch)
BatchStep(w) == X_split(w) \/ X_loop(w) \/ X_rows(w)

\* add_job as the bridge thread calls it: type by extension, default priority
AddDefault == \E f \in Files : add_job(f, FileType(f), DefaultPriority)

\* add_job with a priority the caller chooses
AddPrio == \E f \in Files, p \in Priorities : add_job(f, FileType(f), p)

\* The whole program.
\* ---------------------------------------------------------------- EZCADController, statement by statement
\* The controller methods as their callers run them: a worker inside a job body,
\* the launcher thread _run_ezcad_thread, the GUI thread (_send_command,
\* on_closing). Everything a method does while it holds EZCADController.lock
\* without leaving the interpreter is one step; a call into the window system
\* (window.close, type_keys) made under the lock is a step of its own. A method
\* that returns leaves its caller at "ret" with the value in kloc[c].ret; the
\* caller takes the value and is idle again.
appVars == <<heap, jobs, job_queue, should_run, cfgVars, extVars, hVars, setVars, brVars, last_ezd_file,
             current_data, stop_requested, spawned, workVars, canVars, invoked, stops>>

KGoto(c, l, wid) ==
    /\ kpc' = [kpc EXCEPT ![c] = l]
    /\ kwin' = [kwin EXCEPT ![c] = wid]

\* A method called directly returns r to its caller; close_ezcad called from
\* the loop of close_all_ezcad returns into the loop, which counts a True.
KReturn(c, wid, r, fx) ==
    IF kloc[c].op = "close_all"
    THEN /\ KGoto(c, "a_loop", None)
         /\ kloc' = [kloc EXCEPT ![c].count = @ + (IF r = "True" THEN 1 ELSE 0),
                                 ![c].ok = IF r = "True" THEN @ \cup {wid} ELSE @]
    ELSE /\ KGoto(c, "ret", wid)
         /\ kloc' = [kloc EXCEPT ![c].ret = r, ![c].fx = fx]

\* the caller has the return value
K_resume(c) ==
    /\ kpc[c] = "ret"
    /\ KGoto(c, "idle", None)
    /\ kloc' = [kloc EXCEPT ![c] = NoLoc]
    /\ UNCHANGED <<now, instances, multiple_instances, procs, lock, appVars>>

\* start_ezcad is entered: off Windows the window id is computed at once
K_start_call(c) ==
    /\ kpc[c] = "idle"
    /\ IF ~is_windows THEN KGoto(c, "s_store", now) ELSE KGoto(c, "s_check", None)
    /\ kloc' = [kloc EXCEPT ![c].op = "start"]
    /\ UNCHANGED <<now, instances, multiple_instances, procs, lock, appVars>>

\* the executable path test, then the psutil scan unless multiple instances
\* are allowed, then the test that the ezd file exists
K_start_check(c) ==
    /\ kpc[c] = "s_check"
    /\ \/ KReturn(c, None, NoStr, {})
       \/ /\ ~multiple_instances
          /\ procs > 0
          /\ KReturn(c, None, NoStr, {})
       \/ /\ multiple_instances \/ procs = 0
          /\ KGoto(c, "s_spawn", None)
          /\ UNCHANGED kloc
    /\ UNCHANGED <<now, instances, multiple_instances, procs, lock, appVars>>

\* os.spawnv(os.P_NOWAIT, exe_path, cmd), or the exception it raises
K_start_spawn(c) ==
    /\ kpc[c] = "s_spawn"
    /\ \/ /\ procs' = procs + 1
          /\ KGoto(c, "s_connect", None)
          /\ UNCHANGED kloc
       \/ /\ UNCHANGED procs
          /\ KReturn(c, None, NoStr, {})
    /\ UNCHANGED <<now, instances, multiple_instances, lock, appVars>>

\* A variant of K_start_connect whose loop has no attempt limit.
K_start_connect_unbounded(c) ==
    /\ kpc[c] = "s_connect"
    /\ \/ /\ KGoto(c, "s_store", now)
          /\ UNCHANGED kloc
       \/ /\ KGoto(c, "s_connect", None)
          /\ kloc' = [kloc EXCEPT ![c].tries = IF @ <= PollAttempts THEN @ + 1 ELSE @]
    /\ UNCHANGED <<now, instances, multiple_instances, procs, lock, appVars>>

\* one pass of `for _ in range(15)`: the window is found and named by the
\* clock, or connect raises and the pass ends; after the last pass the method
\* returns window_id, still None
K_start_connect(c) ==
    /\ kpc[c] = "s_connect"
    /\ IF kloc[c].tries < PollAttempts
       THEN \/ /\ KGoto(c, "s_store", now)
               /\ kloc' = [kloc EXCEPT ![c].tries = @ + 1]
            \/ /\ KGoto(c, "s_connect", None)
               /\ kloc' = [kloc EXCEPT ![c].tries = @ + 1]
       ELSE KReturn(c, None, NoStr, {})
    /\ UNCHANGED <<now, instances, multiple_instances, procs, lock, appVars>>

\* A variant of K_start_store that returns the window id without storing it.
K_start_store_untracked(c) ==
    /\ kpc[c] = "s_store"
    /\ lock = NoLock
    /\ KGoto(c, "ret", kwin[c])
    /\ kloc' = [kloc EXCEPT ![c].ret = "id"]
    /\ UNCHANGED <<now, instances, multiple_instances, procs, lock, appVars>>

\* with self.lock: self.instances[window_id] = {...}; return window_id.
\* Every caller inside close_all_ezcad past its snapshot notes the new entry.
K_start_store(c) ==
    /\ kpc[c] = "s_store"
    /\ lock = NoLock
    /\ instances' = instances \cup {kwin[c]}
    /\ KGoto(c, "ret", kwin[c])
    /\ kloc' = [d \in Callers |->
                  IF d = c THEN [kloc[c] EXCEPT !.ret = "id"]
                  ELSE IF kloc[d].op = "close_all" /\ kpc[d] # "a_snap"
                       THEN [kloc[d] EXCEPT !.stored = TRUE]
                       ELSE kloc[d]]
    /\ UNCHANGED <<now, multiple_instances, procs, lock, appVars>>

\* send_command(window_id, command) is entered
K_send_call(c, wid, cmd) ==
    /\ kpc[c] = "idle"
    /\ KGoto(c, "m_wait", wid)
    /\ kloc' = [kloc EXCEPT ![c].op = "send", ![c].cmd = cmd]
    /\ UNCHANGED <<now, instances, multiple_instances, procs, lock, appVars>>

\* A variant of K_send_lookup that reads the session without taking the lock.
K_send_lookup_unlocked(c) ==
    /\ kpc[c] = "m_wait"
    /\ IF kwin[c] \notin instances
       THEN KReturn(c, kwin[c], "False", {})
       ELSE IF ~is_windows
            THEN KReturn(c, kwin[c], "True", {})
            ELSE /\ KGoto(c, "m_type", kwin[c])
                 /\ UNCHANGED kloc
    /\ UNCHANGED <<now, instances, multiple_instances, procs, lock, appVars>>

\* with self.lock: the lookup; an unknown id returns False, a simulated session
\* logs the command and returns True inside the same step, a real session
\* keeps the lock for the keystroke
K_send_lookup(c) ==
    /\ kpc[c] = "m_wait"
    /\ lock = NoLock
    /\ IF kwin[c] \notin instances
       THEN /\ KReturn(c, kwin[c], "False", {})
            /\ UNCHANGED lock
       ELSE IF ~is_windows
            THEN /\ KReturn(c, kwin[c], "True", {})
                 /\ UNCHANGED lock
            ELSE /\ KGoto(c, "m_type", kwin[c])
                 /\ lock' = c
                 /\ UNCHANGED kloc
    /\ UNCHANGED <<now, instances, multiple_instances, procs, appVars>>

\* 'red' and 'mark': window.set_focus(), then window.type_keys(...); either
\* may raise, which the outer handler turns into False. Any other command is
\* logged as unknown and returns False. The lock is released on return.
K_send_type(c) ==
    /\ kpc[c] = "m_type"
    /\ lock' = NoLock
    /\ IF kloc[c].cmd \in Recognized
       THEN \/ KReturn(c, kwin[c], "True", {"focus", "key"})
            \/ KReturn(c, kwin[c], "False", {"focus"})
            \/ KReturn(c, kwin[c], "False", {})
       ELSE KReturn(c, kwin[c], "False", {})
    /\ UNCHANGED <<now, instances, multiple_instances, procs, appVars>>

\* close_ezcad(window_id) is entered
K_close_call(c, wid) ==
    /\ kpc[c] = "idle"
    /\ KGoto(c, "c_wait", wid)
    /\ kloc' = [kloc EXCEPT ![c].op = "close"]
    /\ UNCHANGED <<now, instances, multiple_instances, procs, lock, appVars>>

\* A variant of K_close_lookup that reports success for an unknown window id.
K_close_lookup_lenient(c) ==
    /\ kpc[c] = "c_wait"
    /\ lock = NoLock
    /\ IF kwin[c] \notin instances
       THEN /\ KReturn(c, kwin[c], "True", {})
            /\ UNCHANGED <<instances, lock>>
       ELSE IF ~is_windows
            THEN /\ instances' = instances \ {kwin[c]}
                 /\ KReturn(c, kwin[c], "True", {})
                 /\ UNCHANGED lock
            ELSE /\ KGoto(c, "c_close", kwin[c])
                 /\ lock' = c
                 /\ UNCHANGED <<instances, kloc>>
    /\ UNCHANGED <<now, multiple_instances, procs, appVars>>

\* with self.lock: the lookup; an unknown id returns False, a simulated session
\* is deleted at once, a real session keeps the lock for window.close()
K_close_lookup(c) ==
    /\ kpc[c] = "c_wait"
    /\ lock = NoLock
    /\ IF kwin[c] \notin instances
       THEN /\ KReturn(c, kwin[c], "False", {})
            /\ UNCHANGED <<instances, lock>>
       ELSE IF ~is_windows
            THEN /\ instances' = instances \ {kwin[c]}
                 /\ KReturn(c, kwin[c], "True", {})
                 /\ UNCHANGED lock
            ELSE /\ KGoto(c, "c_close", kwin[c])
                 /\ lock' = c
                 /\ UNCHANGED <<instances, kloc>>
    /\ UNCHANGED <<now, multiple_instances, procs, appVars>>

\* window.close(): it raises and the method returns False from the handler, or
\* the window closes and its process ends
K_close_window(c) ==
    /\ kpc[c] = "c_close"
    /\ \/ /\ KReturn(c, kwin[c], "False", {})
          /\ lock' = NoLock
          /\ UNCHANGED procs
       \/ /\ KGoto(c, "c_del", kwin[c])
          /\ procs' = IF procs > 0 THEN procs - 1 ELSE 0
          /\ UNCHANGED <<lock, kloc>>
    /\ UNCHANGED <<now, instances, multiple_instances, appVars>>

\* the save dialog is dismissed; del self.instances[window_id]; return True
K_close_del(c) ==
    /\ kpc[c] = "c_del"
    /\ instances' = instances \ {kwin[c]}
    /\ lock' = NoLock
    /\ KReturn(c, kwin[c], "True", {})
    /\ UNCHANGED <<now, multiple_instances, procs, appVars>>

\* close_all_ezcad() is entered
K_all_call(c) ==
    /\ kpc[c] = "idle"
    /\ KGoto(c, "a_snap", None)
    /\ kloc' = [kloc EXCEPT ![c].op = "close_all"]
    /\ UNCHANGED <<now, instances, multiple_instances, procs, lock, appVars>>

\* A variant of K_all_snap that keeps the lock for the loop over the snapshot.
K_all_snap_holding(c) ==
    /\ kpc[c] = "a_snap"
    /\ lock = NoLock
    /\ lock' = c
    /\ KGoto(c, "a_loop", None)
    /\ kloc' = [kloc EXCEPT ![c].ids = instances, ![c].snap = instances]
    /\ UNCHANGED <<now, instances, multiple_instances, procs, appVars>>

\* with self.lock: window_ids = list(self.instances.keys()); closed_count = 0
K_all_snap(c) ==
    /\ kpc[c] = "a_snap"
    /\ lock = NoLock
    /\ KGoto(c, "a_loop", None)
    /\ kloc' = [kloc EXCEPT ![c].ids = instances, ![c].snap = instances]
    /\ UNCHANGED <<now, instances, multiple_instances, procs, lock, appVars>>

\* A variant of K_all_next that leaves the loop after a close that failed.
K_all_next_abort(c) ==
    /\ kpc[c] = "a_loop"
    /\ IF kloc[c].ids = {} \/ kloc[c].tried # kloc[c].ok
       THEN /\ KGoto(c, "ret", None)
            /\ kloc' = [kloc EXCEPT ![c].ret = "count"]
       ELSE \E wid \in kloc[c].ids :
               /\ KGoto(c, "c_wait", wid)
               /\ kloc' = [kloc EXCEPT ![c].ids = @ \ {wid}, ![c].tried = @ \cup {wid}]
    /\ UNCHANGED <<now, instances, multiple_instances, procs, lock, appVars>>

\* for window_id in window_ids: close_ezcad(window_id) is called for the next
\* id; after the last one closed_count is returned
K_all_next(c) ==
    /\ kpc[c] = "a_loop"
    /\ IF kloc[c].ids = {}
       THEN /\ KGoto(c, "ret", None)
            /\ kloc' = [kloc EXCEPT ![c].ret = "count"]
       ELSE \E wid \in kloc[c].ids :
               /\ KGoto(c, "c_wait", wid)
               /\ kloc' = [kloc EXCEPT ![c].ids = @ \ {wid}, ![c].tried = @ \cup {wid}]
    /\ UNCHANGED <<now, instances, multiple_instances, procs, lock, appVars>>

CallerStep(c) ==
    \/ K_start_check(c) \/ K_start_connect(c) \/ K_start_store(c)
    \/ K_send_lookup(c) \/ K_send_type(c)
    \/ K_close_lookup(c) \/ K_close_window(c) \/ K_close_del(c)
    \/ K_resume(c)

AllStep(c) == K_all_snap(c) \/ K_all_next(c)

\* The steps inside start_ezcad and the return to the caller; the steps inside
\* close_ezcad
StartStep(c) == K_start_check(c) \/ K_start_connect(c) \/ K_start_store(c) \/ K_resume(c)
CloseStep(c) == K_close_lookup(c) \/ K_close_window(c) \/ K_close_del(c)

\* ------------------------------------------- DirectoryWatcher, statement by statement
\* The GUI thread runs one handler at a time; the observer's thread dispatches
\* file-system events to FileChangeHandler while it is alive.
MaxWall    == 6                  \* bound: the clock stops after this many ticks
MaxEvents  == 3                  \* bound: events handed to the handler
TicksPerSecond == 2              \* model resolution of time.time(): half seconds
DebounceSeconds == 2             \* `current_time - self.last_events[path] < 2`
EventTypes == {"created", "modified"}

\* Inputs: the pattern strings typed into the Excel pattern field and the paths
\* of created files
MaxFragLen == 3                  \* bound: characters in one fragment of a pattern string
MaxPathLen == 2                  \* bound: characters in a path
PatChars  == {"*", ".", "x"}
PathChars == {".", "x", "X"}
Fragments == UNION {[1..n -> PatChars] : n \in 0..MaxFragLen}
\* one fragment, or two separated by ";" or by "; "
PatternStrings ==
    Fragments \cup {a \o <<";">> \o b : a, b \in Fragments}
              \cup {a \o <<";", " ">> \o b : a, b \in Fragments}
Paths == UNION {[1..n -> PathChars] : n \in 1..MaxPathLen}

\* What is left unchanged by every step of the GUI thread and of the observer
watchFrame == <<now, heap, jobs, job_queue, should_run, cfgVars, extVars, kVars, ctlVars, spawned,
                workVars, canVars, invoked, stops, bspawned, bpc, bfile, auto_trigger>>

GGoto(l) == gui' = [gui EXCEPT !.pc = l]
GReturn(r) == gui' = [gui EXCEPT !.pc = "ret", !.ret = r]

\* `if self.directory_watcher.start_watching():` (ezcad_automation_compat.py
\* line 606): the truth value of what start_watching returned
Truthy(r) == r = "True"

\* time.time() advances
WallTick ==
    /\ wall < MaxWall
    /\ wall' = wall + 1
    /\ UNCHANGED <<watchFrame, patVars, setVars, gui, events, evVars, file_queue, notified, forwarded>>

\* FileChangeHandler.on_created (lines 26-29) for the file f under the name
\* path: the event goes on to _handle_event when _is_valid_file accepts the
\* path
on_created(path, f) ==
    /\ Dispatching
    /\ src_path' = path
    /\ valid' = _is_valid_file(file_patterns, path)
    /\ IF _is_valid_file(file_patterns, path)
       THEN /\ events' = events + 1
            /\ seen' = [seen EXCEPT ![f] = wall]
            /\ IF last_events[f] # NoTime
                     /\ wall - last_events[f] < DebounceSeconds * TicksPerSecond
               THEN UNCHANGED <<last_events, emitted, file_queue, notified, forwarded>>
               ELSE /\ last_events' = [last_events EXCEPT ![f] = wall]
                    /\ emitted' = [emitted EXCEPT ![f] = @ \cup {[at |-> wall, type |-> "created"]}]
                    /\ callback(f)
       ELSE UNCHANGED <<events, evVars, file_queue, notified, forwarded>>
    /\ UNCHANGED <<watchFrame, file_pattern_excel, file_patterns, setVars, gui, wall>>

\* _handle_event with the time recorded for every event, dropped ones included
_handle_event_lastseen(event_type, path) ==
    /\ last_events' = [last_events EXCEPT ![path] = wall]
    /\ IF last_events[path] # NoTime /\ wall - last_events[path] < DebounceSeconds * TicksPerSecond
       THEN UNCHANGED <<emitted, file_queue, notified, forwarded>>
       ELSE /\ emitted' = [emitted EXCEPT ![path] = @ \cup {[at |-> wall, type |-> event_type]}]
            /\ callback(path)

\* FileChangeHandler._handle_event(event_type, path), lines 41-54: an event less
\* than 2 seconds after the time recorded for its path is dropped; otherwise
\* the time is recorded and the callback called
_handle_event(event_type, path) ==
    IF last_events[path] # NoTime /\ wall - last_events[path] < DebounceSeconds * TicksPerSecond
    THEN UNCHANGED <<last_events, emitted, file_queue, notified, forwarded>>
    ELSE /\ last_events' = [last_events EXCEPT ![path] = wall]
         /\ emitted' = [emitted EXCEPT ![path] = @ \cup {[at |-> wall, type |-> event_type]}]
         /\ callback(path)

\* _handle_event without lines 45-47: every event is passed on
on_event_nodebounce(f, type) ==
    /\ Dispatching
    /\ events' = events + 1
    /\ seen' = [seen EXCEPT ![f] = wall]
    /\ last_events' = [last_events EXCEPT ![f] = wall]
    /\ emitted' = [emitted EXCEPT ![f] = @ \cup {[at |-> wall, type |-> type]}]
    /\ callback(f)
    /\ UNCHANGED <<watchFrame, patVars, setVars, gui, wall>>

\* FileChangeHandler.on_created / on_modified for a file that is not a
\* directory and passes _is_valid_file, then _handle_event (lines 41-54): the
\* event is dropped when the path has an entry in last_events less than two
\* seconds old; otherwise the entry is set to the current time and the callback
\* (DirectoryWatcher._file_callback) is called
on_event(f, type) ==
    /\ Dispatching
    /\ events' = events + 1
    /\ seen' = [seen EXCEPT ![f] = wall]
    /\ _handle_event(type, f)
    /\ UNCHANGED <<watchFrame, patVars, setVars, gui, wall>>

\* _start_monitoring lines 590-603, the Start Monitoring button's command with
\* a valid directory in the directory field and s in the Excel pattern field:
\* directory, patterns and Monitoring.enabled are written to the
\* configuration; line 606 calls start_watching
G_start_monitoring(s) ==
    /\ gui.pc = "idle"
    /\ start_monitoring_button
    /\ monitoring_enabled' = TRUE
    /\ watch_dir_ok' = TRUE
    /\ file_pattern_excel' = s
    /\ gui' = [pc |-> "w_check", op |-> "_start_monitoring", ret |-> NoStr, err |-> FALSE]
    /\ UNCHANGED <<watchFrame, file_patterns, src_path, valid, is_running, observer,
                   start_monitoring_button, wall, events, evVars, file_queue, notified,
                   forwarded>>

\* _start_automation lines 911-916: start_watching is called when
\* Monitoring.enabled is set, and its result is not looked at. The application
\* calls the method from __init__ (line 64) when Settings.auto_start is set; it
\* is modelled as callable whenever the GUI thread is idle, as start_watching
\* itself is for any owner of the DirectoryWatcher.
G_start_automation ==
    /\ gui.pc = "idle"
    /\ monitoring_enabled
    /\ gui' = [pc |-> "w_check", op |-> "_start_automation", ret |-> NoStr, err |-> FALSE]
    /\ UNCHANGED <<watchFrame, patVars, setVars, wall, events, evVars, file_queue, notified, forwarded>>

\* _stop_monitoring line 621, the Stop Monitoring button's command: calls
\* stop_watching
G_stop_monitoring ==
    /\ gui.pc = "idle"
    /\ ~start_monitoring_button
    /\ gui' = [pc |-> "t_check", op |-> "_stop_monitoring", ret |-> NoStr, err |-> FALSE]
    /\ UNCHANGED <<watchFrame, patVars, setVars, wall, events, evVars, file_queue, notified, forwarded>>

\* start_watching lines 77-79: `if self.is_running: ... return`
SW_check ==
    /\ gui.pc = "w_check"
    /\ IF is_running THEN GReturn("None") ELSE GGoto("w_dir")
    /\ UNCHANGED <<watchFrame, patVars, setVars, wall, events, evVars, file_queue, notified, forwarded>>

\* start_watching lines 82-96 with the directory test removed
SW_dir_unchecked ==
    /\ gui.pc = "w_dir"
    /\ GGoto("w_new")
    /\ UNCHANGED <<watchFrame, patVars, setVars, wall, events, evVars, file_queue, notified, forwarded>>

\* start_watching lines 82-96: `if not directory or not os.path.isdir(directory):
\* ... return False`
SW_dir ==
    /\ gui.pc = "w_dir"
    /\ IF watch_dir_ok THEN GGoto("w_new") ELSE GReturn("False")
    /\ UNCHANGED <<watchFrame, patVars, setVars, wall, events, evVars, file_queue, notified, forwarded>>

\* start_watching lines 87-101: the patterns are parsed, a new
\* FileChangeHandler and a new Observer are created and the handler is scheduled
SW_new ==
    /\ gui.pc = "w_new"
    /\ NewHandler
    /\ observer' = "new"
    /\ GGoto("w_start")
    /\ UNCHANGED <<watchFrame, file_pattern_excel, src_path, valid, monitoring_enabled,
                   is_running, watch_dir_ok, start_monitoring_button, wall, events,
                   file_queue, notified, forwarded>>

\* start_watching line 104: self.observer.start()
SW_start ==
    /\ gui.pc = "w_start"
    /\ observer' = "alive"
    /\ GGoto("w_flag")
    /\ UNCHANGED <<watchFrame, patVars, monitoring_enabled, is_running, watch_dir_ok,
                   start_monitoring_button, wall, events, evVars, file_queue, notified,
                   forwarded>>

\* start_watching lines 105-109: self.is_running = True; return True
SW_flag ==
    /\ gui.pc = "w_flag"
    /\ is_running' = TRUE
    /\ GReturn("True")
    /\ UNCHANGED <<watchFrame, patVars, monitoring_enabled, observer, watch_dir_ok,
                   start_monitoring_button, wall, events, evVars, file_queue, notified,
                   forwarded>>

\* stop_watching lines 113-114: `if self.observer and self.is_running:
\* self.observer.stop()`. is_running is set only after an observer was
\* created, so the test is the test of is_running.
TW_check ==
    /\ gui.pc = "t_check"
    /\ IF is_running
       THEN observer' = "stopping" /\ GGoto("t_join")
       ELSE UNCHANGED observer /\ GReturn("None")
    /\ UNCHANGED <<watchFrame, patVars, monitoring_enabled, is_running, watch_dir_ok,
                   start_monitoring_button, wall, events, evVars, file_queue, notified,
                   forwarded>>

\* The observer's thread, asked to stop, ends
O_exit ==
    /\ observer = "stopping"
    /\ observer' = "off"
    /\ UNCHANGED <<watchFrame, patVars, monitoring_enabled, is_running, watch_dir_ok,
                   start_monitoring_button, gui, wall, events, evVars, file_queue, notified,
                   forwarded>>

\* stop_watching line 115 without waiting for the thread
TW_join_nowait ==
    /\ gui.pc = "t_join"
    /\ GGoto("t_flag")
    /\ UNCHANGED <<watchFrame, patVars, setVars, wall, events, evVars, file_queue, notified, forwarded>>

\* stop_watching line 115: self.observer.join() returns when the thread ended
TW_join ==
    /\ gui.pc = "t_join"
    /\ observer = "off"
    /\ GGoto("t_flag")
    /\ UNCHANGED <<watchFrame, patVars, setVars, wall, events, evVars, file_queue, notified, forwarded>>

\* stop_watching lines 116-117: self.is_running = False, then the method ends
TW_flag ==
    /\ gui.pc = "t_flag"
    /\ is_running' = FALSE
    /\ GReturn("None")
    /\ UNCHANGED <<watchFrame, patVars, monitoring_enabled, observer, watch_dir_ok,
                   start_monitoring_button, wall, events, evVars, file_queue, notified,
                   forwarded>>

\* The rest of the handler after the call returned. _start_monitoring lines
\* 606-616: the buttons are switched when the result is true, an error dialog
\* is shown otherwise; _start_automation lines 917-918: the buttons are
\* switched; _stop_monitoring lines 622-630: Monitoring.enabled is cleared and
\* the buttons are switched back.
G_resume ==
    /\ gui.pc = "ret"
    /\ gui' = [pc |-> "idle", op |-> "none", ret |-> NoStr,
               err |-> (gui.op = "_start_monitoring" /\ ~Truthy(gui.ret))]
    /\ start_monitoring_button' =
          CASE gui.op = "_start_monitoring" ->
                  IF Truthy(gui.ret) THEN FALSE ELSE start_monitoring_button
            [] gui.op = "_start_automation" -> FALSE
            [] OTHER -> TRUE
    /\ monitoring_enabled' = IF gui.op = "_stop_monitoring" THEN FALSE ELSE monitoring_enabled
    /\ UNCHANGED <<watchFrame, patVars, is_running, observer, watch_dir_ok, wall, events, evVars,
                   file_queue, notified, forwarded>>

GuiStep ==
    \/ SW_check \/ SW_dir \/ SW_new \/ SW_start \/ SW_flag
    \/ TW_check \/ TW_join \/ TW_flag
    \/ G_resume

\* Monitoring and auto-trigger as the default configuration has them: off.
NoWatcher == ~monitoring_enabled /\ ~auto_trigger

\* The default configuration on a host without the automation layer:
\* one worker, no batches, simulated sessions.
SimConfig == max_threads = 1 /\ ~is_windows /\ ~batch_process /\ NoWatcher

\* Enqueue first, then process: every add_job precedes start_processing.
InitOrder == Init /\ SimConfig

NextOrder ==
    \/ Tick
    \/ spawned = 0 /\ Len(heap) < OrderJobs /\ AddPrio
    \/ start_processing
    \/ \E w \in Workers : WorkerStep(w) \/ EntireStep(w)

SpecOrder == InitOrder /\ [][NextOrder]_vars

\* Cancellation against the worker. The clock stands still here: jobs are told
\* apart by their base names, and two jobs of one file share an id. Jobs are
\* added before processing starts, and again once the worker has emptied the
\* queue and an EZD file has been opened; cancel_job is called at any time.
InitCancel == Init /\ SimConfig

NextCancel ==
    \/ (\/ spawned = 0
        \/ /\ job_queue = <<>> /\ last_ezd_file # None
           /\ \A w \in Workers : wpc[w] \in {"unborn", "loop", "get"})
          /\ Len(heap) < MaxJobs /\ AddDefault
    \/ start_processing
    \/ \E k \in CancelIds : C_test(k)
    \/ C_set
    \/ C_return
    \/ \E w \in Workers : WorkerStep(w) \/ EntireStep(w)

SpecCancel == InitCancel /\ [][NextCancel]_vars

\* The job bodies under every configuration, one worker per start.
InitBody == Init /\ max_threads = 1 /\ NoWatcher

NextBody ==
    \/ Tick
    \/ Len(heap) < MaxJobs /\ AddDefault
    \/ start_processing
    \/ stops < MaxStops /\ StopButton
    \/ \E w \in Workers : WorkerStep(w) \/ EntireStep(w) \/ BatchStep(w)

SpecBody == InitBody /\ [][NextBody]_vars

\* Sessions: the job bodies under every configuration, one start, no stop.
InitSession == Init /\ max_threads = 1 /\ NoWatcher

NextSession ==
    \/ Tick
    \/ Len(heap) < MaxJobs /\ AddDefault
    \/ start_processing
    \/ \E w \in Workers : WorkerStep(w) \/ EntireStep(w) \/ BatchStep(w)

SpecSession == InitSession /\ [][NextSession]_vars

\* The worker loop against start and stop, restarts included: jobs and workers
\* together number at most MaxJobs + MaxThreads, and stop is pressed while
\* the workers run.
InitLoop == Init /\ SimConfig

NextLoop ==
    \/ Len(heap) + spawned < MaxJobs + MaxThreads /\ Len(heap) < MaxJobs /\ AddDefault
    \/ Len(heap) + spawned < MaxJobs + MaxThreads /\ start_processing
    \/ should_run /\ stops < MaxStops /\ stop_processing
    \/ \E w \in Workers : WorkerStep(w) \/ EntireStep(w)

SpecLoop == InitLoop /\ [][NextLoop]_vars

\* The watcher, the bridge thread and the workers against start and stop: jobs
\* come from file-system notifications only.
InitWatch == Init /\ max_threads = 1 /\ ~is_windows /\ ~batch_process

NextWatch ==
    \/ \E m, a \in BOOLEAN : apply_settings(m, a, multiple_instances, watch_dir_ok)
    \/ _start_monitoring
    \/ _stop_monitoring
    \/ notified < MaxNotes /\ \E f \in Files : _file_callback(f)
    \/ start_processing
    \/ stops < MaxStops /\ stop_processing
    \/ \E w \in Workers : WorkerStep(w) \/ EntireStep(w)
    \/ \E b \in Bridges : BridgeStep(b)

SpecWatch == InitWatch /\ [][NextWatch]_vars

\* Start and stop with monitoring: jobs come from notifications through the
\* bridge thread; notifications and worker threads together number at most
\* MaxLoad.
InitStop == Init /\ max_threads = 1 /\ ~is_windows /\ ~batch_process
                 /\ monitoring_enabled /\ ~auto_trigger

NextStop ==
    \/ _start_monitoring
    \/ notified + spawned < MaxLoad /\ notified < MaxNotes
          /\ \E f \in Files : _file_callback(f)
    \/ notified + spawned < MaxLoad /\ start_processing
    \/ stops < MaxStops /\ stop_processing
    \/ \E w \in Workers : WorkerStep(w) \/ EntireStep(w)
    \/ \E b \in Bridges : BridgeStep(b)

SpecStop == InitStop /\ [][NextStop]_vars

\* Halting: the same scenario with stop_processing called while should_run is
\* true, under thread scheduling: every started thread keeps being run. No
\* step of a thread waits for another thread: both queue reads time out after
\* a second (lines 161 and 191).
\* one file of each job type
TypeFiles == {f \in Files : \A g \in Files : FileType(g) = FileType(f) => f <= g}
InitHalt == InitStop

NextHalt ==
    \/ _start_monitoring
    \/ notified + spawned < MaxLoad /\ notified < MaxNotes
          /\ \E f \in TypeFiles : _file_callback(f)
    \/ notified + spawned < MaxLoad /\ start_processing
    \/ should_run /\ stops < MaxStops /\ stop_processing
    \/ \E w \in Workers : WorkerStep(w) \/ EntireStep(w)
    \/ \E b \in Bridges : BridgeStep(b)

SpecHalt == InitHalt /\ [][NextHalt]_vars

FairHalt ==
    /\ SpecHalt
    /\ \A w \in Workers : WF_vars(WorkerStep(w) \/ EntireStep(w))
    /\ \A b \in Bridges : WF_vars(BridgeStep(b))

\* ================================================================ claims

Live(w) == wpc[w] \notin {"unborn", "exited"}
Started(w) == wpc[w] = "mark" /\ wpc'[w] = "stamp"
Queued(u) == \E i \in 1..Len(job_queue) :
                /\ job_queue[i][2] \in DOMAIN jobs
                /\ jobs[job_queue[i][2]] = u
Objects == 1..Len(heap)

\* C1 (as claimed): with one worker and every add_job before start_processing,
\* no job enters RUNNING while a PENDING job of smaller priority value is still
\* in the queue.
C1_PriorityOrder ==
    [][\A w \in Workers : Started(w) =>
          ~\E u \in Objects : /\ Queued(u)
                              /\ heap[u].status = PENDING
                              /\ heap[u].priority < heap[wjob[w]].priority]_vars

\* C2 (as claimed): with one worker, no job enters RUNNING while a PENDING job
\* of the same priority that was added earlier is still in the queue.
C2_FifoWithinPriority ==
    [][\A w \in Workers : Started(w) =>
          ~\E u \in Objects : /\ Queued(u)
                              /\ heap[u].status = PENDING
                              /\ heap[u].priority = heap[wjob[w]].priority
                              /\ u < wjob[w]]_vars

\* C3: cancel_job returns True exactly when it found the job and found it
\* PENDING; a call on a job an earlier call already addressed returns False;
\* a call that returns False changes no job.
C3_CancelContract ==
    /\ [](cpc = "ret" =>
            /\ cret <=> (cjob # None /\ cbefore = PENDING)
            /\ cjob \in ccalled => ~cret)
    /\ [][cpc = "idle" /\ cpc' = "ret" => ~cret' /\ heap' = heap]_vars

\* C3 witness: a second cancel_job on a job the first call canceled has failed.
C3_Witness ==
    /\ cpc = "ret" /\ ~cret
    /\ cjob \in cok
    /\ heap[cjob].status = CANCELED

\* C4 (as claimed): a status changes only along PENDING->RUNNING,
\* RUNNING->COMPLETED, RUNNING->FAILED or PENDING->CANCELED.
AllowedTransitions ==
    {<<PENDING, RUNNING>>, <<RUNNING, COMPLETED>>, <<RUNNING, FAILED>>,
     <<PENDING, CANCELED>>}

C4_StatusTransitions ==
    [][\A u \in Objects :
          \/ heap'[u].status = heap[u].status
          \/ <<heap[u].status, heap'[u].status>> \in AllowedTransitions]_vars

\* C5 (as claimed): a job for which cancel_job returned True stays CANCELED and
\* the processor is never invoked for it.
CancelSucceeded == cok \cup (IF cpc = "ret" /\ cret THEN {cjob} ELSE {})

C5_CanceledNeverRuns ==
    \A u \in CancelSucceeded : heap[u].status = CANCELED /\ invoked[u] = 0

\* C6 (as claimed): result and error are never both populated, and both are
\* absent while the status is PENDING or RUNNING.
C6_ResultErrorExclusive ==
    \A u \in Objects :
       /\ ~(heap[u].result # NoResult /\ heap[u].error # NoStr)
       /\ heap[u].status \in {PENDING, RUNNING} =>
             heap[u].result = NoResult /\ heap[u].error = NoStr

EzdBodyStep(w) ==
    /\ wpc[w] = "body" /\ wpc'[w] = "store"
    /\ heap[wjob[w]].job_type = "ezd"

C8_ExcelFailureIsFailed ==
    \A u \in Objects :
       (heap[u].job_type = "excel" /\ heap[u].status = COMPLETED)
       => heap[u].result.kind \in {"entire", "batch"}

\* C9 (as claimed): an 'ezd' job is COMPLETED only when its session was
\* started; when start_ezcad returned no window id it is FAILED.
C9_EzdFailureIsFailed ==
    \A u \in Objects :
       (heap[u].job_type = "ezd" /\ heap[u].status = COMPLETED)
       => heap[u].result.kind = "ezd_ok"

\* C10: a worker leaves its loop only at the loop test and only when should_run
\* is false; a job body that raises takes the worker on to mark the job FAILED
\* with the message in error and back to the loop test; a live worker always
\* has a next step.
C10_WorkerSurvives ==
    /\ [][\A w \in Workers :
            /\ (wpc[w] # "exited" /\ wpc'[w] = "exited") =>
                  wpc[w] = "loop" /\ ~should_run
            /\ (wpc[w] = "body" /\ heap[wjob[w]].job_type \notin {"excel", "ezd"}) =>
                  wpc'[w] \in {"body", "store"}
            /\ (wpc[w] = "status" /\ wpc'[w] # "status" /\ wexc[w] # NoStr) =>
                  /\ wpc'[w] = "end"
                  /\ heap'[wjob[w]].status = FAILED
                  /\ heap'[wjob[w]].error = wexc[w]
            /\ (wpc[w] = "end" /\ wpc'[w] # "end") => wpc'[w] = "loop"]_vars
    /\ [](\A w \in Workers : Live(w) => ENABLED (WorkerStep(w) \/ EntireStep(w)))

\* C10 witness: the only worker runs a job after another job has FAILED.
C10_Witness ==
    /\ spawned = 1
    /\ \E w \in Workers, u \in Objects :
          /\ heap[u].status = FAILED /\ heap[u].error # NoStr
          /\ wjob[w] # None /\ wjob[w] # u
          /\ heap[wjob[w]].status = RUNNING

\* C11 (as claimed): every add_job stores its Job under an id the collection
\* did not hold: the collection grows by one, no entry of it is replaced, and
\* get_job on the new id yields the new PENDING Job.
Added == Len(heap') = Len(heap) + 1

C11_AddJobFreshId ==
    [][Added =>
          LET job == heap'[Len(heap')] IN
          /\ job.id \notin DOMAIN jobs
          /\ Cardinality(DOMAIN jobs') = Cardinality(DOMAIN jobs) + 1
          /\ \A k \in DOMAIN jobs : jobs'[k] = jobs[k]
          /\ jobs'[job.id] = Len(heap') /\ job.status = PENDING]_vars

\* C12 (as claimed): whatever start_processing and stop_processing calls were
\* made, at most max_concurrent_processes worker loops are live and at most
\* that many jobs are RUNNING.
LiveWorkers == {w \in Workers : Live(w)}

C12_WorkerPoolBounded ==
    /\ Cardinality(LiveWorkers) <= max_threads
    /\ Cardinality({u \in Objects : heap[u].status = RUNNING}) <= max_threads

\* C13: a stop_processing call leaves should_run false; called when should_run
\* is already false it changes no job, no queue and no thread; and while
\* should_run is true no step, start_processing included, creates a worker or
\* a bridge thread.
StopCall == stops' = stops + 1

C13_StopStartIdempotent ==
    [][/\ StopCall => ~should_run'
       /\ (StopCall /\ ~should_run) =>
             /\ heap' = heap /\ jobs' = jobs
             /\ job_queue' = job_queue /\ file_queue' = file_queue
             /\ wpc' = wpc /\ bpc' = bpc
             /\ spawned' = spawned /\ bspawned' = bspawned
       /\ should_run => spawned' = spawned /\ bspawned' = bspawned]_vars

\* C13 witness: two stop_processing calls around a single start, with a job in
\* the collection and a worker and a bridge thread still alive.
C13_Witness ==
    /\ stops = 2 /\ ~should_run /\ spawned = 1
    /\ Len(heap) > 0
    /\ \E w \in Workers : Live(w)
    /\ \E b \in Bridges : bpc[b] \notin {"unborn", "exited"}

\* C14: when should_run stays false from some point on, every worker loop and
\* every bridge loop has exited from some point on. A job stays RUNNING only
\* while a worker is in its body, and it leaves RUNNING only for COMPLETED or
\* FAILED, so a job that is RUNNING at the stop has reached one of the two by
\* the time the workers have exited. A worker or bridge thread at its loop test
\* or its queue read always has a step of its own, which at the loop test with
\* should_run false is the exit.
AllExited ==
    /\ \A w \in Workers : ~Live(w)
    /\ \A b \in Bridges : bpc[b] \in {"unborn", "exited"}

InBody(w) == Live(w) /\ wpc[w] \notin {"loop", "get", "check", "mark", "end"}

C14_StopTerminates ==
    /\ <>[](~should_run) => <>[]AllExited
    /\ [](\A u \in Objects : heap[u].status = RUNNING =>
                \E w \in Workers : InBody(w) /\ wjob[w] = u)
    /\ [][\A u \in Objects :
             (heap[u].status = RUNNING /\ heap'[u].status # RUNNING) =>
                heap'[u].status \in {COMPLETED, FAILED}]_vars
    /\ [](\A w \in Workers : wpc[w] \in {"loop", "get"} => ENABLED WorkerStep(w))
    /\ [](\A b \in Bridges : bpc[b] \in {"loop", "get"} => ENABLED BridgeStep(b))
    /\ [][/\ \A w \in Workers :
               (wpc[w] = "loop" /\ ~should_run /\ wpc'[w] # "loop") => wpc'[w] = "exited"
          /\ \A b \in Bridges :
               (bpc[b] = "loop" /\ ~should_run /\ bpc'[b] # "loop") => bpc'[b] = "exited"]_vars

\* C14 witness: stop_processing was called while one worker runs a job, another
\* worker is idle and a bridge thread is alive.
C14_Witness ==
    /\ stops > 0 /\ ~should_run
    /\ \E w \in Workers : wpc[w] = "body" /\ heap[wjob[w]].status = RUNNING
    /\ \E w \in Workers : wpc[w] \in {"loop", "get"}
    /\ \E b \in Bridges : bpc[b] \in {"loop", "get"}

\* C15 (as claimed): the bridge thread creates a job from a notification only
\* while auto-trigger is enabled, and the watcher's callback puts every
\* notification it receives on the file queue.
C15_AutoTriggerPolicy ==
    /\ [][(Added /\ \E b \in Bridges : bpc[b] = "add") => auto_trigger]_vars
    /\ [](forwarded = notified)

\* C16 (as claimed): with max_concurrent_processes = 1 at most one session is
\* started and not yet closed, and at most one thread holds a session.
C16_OneSessionAtATime ==
    max_threads = 1 =>
       /\ Cardinality(instances) <= 1
       /\ Cardinality({w \in Workers : wwin[w] # None}) <= 1

\* Controller scenario: callers start, command and close sessions concurrently
\* while the clock runs and the settings dialog toggles multiple instances.
InitCtl == Init /\ max_threads = 1 /\ ~batch_process /\ NoWatcher
NextCtl ==
    \/ Tick
    \/ \E mi \in BOOLEAN : apply_settings(monitoring_enabled, auto_trigger, mi, watch_dir_ok)
    \/ \E c \in Callers : K_start_call(c)
    \/ \E c \in Callers : procs < MaxProcs /\ K_start_spawn(c)
    \/ \E c \in Callers, wid \in Times, cmd \in Commands : K_send_call(c, wid, cmd)
    \/ \E c \in Callers, wid \in Times : K_close_call(c, wid)
    \/ \E c \in Callers : CallerStep(c)
SpecCtl == InitCtl /\ [][NextCtl]_vars

\* C17 (as claimed): a start_ezcad call that succeeds returns a window id no
\* tracked session has, so storing the new session never overwrites an entry
\* of instances, also when two calls run concurrently.
StartStores(c) == kpc[c] = "s_store" /\ kpc'[c] = "ret"
C17_WindowIdUnique ==
    [][\A c \in Callers : StartStores(c) =>
          /\ kwin[c] \notin instances
          /\ Cardinality(instances') = Cardinality(instances) + 1]_vars

\* C18: send_command and close_ezcad never interleave. A caller past the lookup
\* of a real session (about to deliver the keystroke, to call window.close() or
\* to delete the entry) holds the controller lock, so no two callers are past
\* their lookups at once; the session a keystroke is delivered to is still
\* tracked at the delivery, and the entry close_ezcad deletes is the one it
\* looked up.
InLocked(c) == kpc[c] \in {"m_type", "c_close", "c_del"}
Delivers(c) == kpc[c] = "m_type" /\ kpc'[c] = "ret"
C18_SendCloseExclusive ==
    /\ [](\A c \in Callers : InLocked(c) => lock = c /\ kwin[c] \in instances)
    /\ [](\A c, d \in Callers : InLocked(c) /\ InLocked(d) => c = d)
    /\ [][\A c \in Callers : Delivers(c) =>
             /\ kwin[c] \in instances
             /\ \A d \in Callers \ {c} : ~(kpc[d] \in {"c_close", "c_del"})]_vars

\* A real session is being closed, window.close() has returned, and another
\* caller's send_command for the same window id waits for the lock.
C18_Witness ==
    \E c, d \in Callers :
       /\ kpc[c] = "c_del"
       /\ kpc[d] = "m_wait"
       /\ kwin[c] = kwin[d]
       /\ lock = c

\* C19 (as claimed): with multiple instances disabled start_ezcad spawns a
\* process only when no EZCAD2.exe process runs, and fails without spawning
\* when one does.
Spawns(c) == kpc[c] = "s_spawn" /\ procs' = procs + 1
C19_NoSecondProcess ==
    /\ [][\A c \in Callers : Spawns(c) /\ ~multiple_instances => procs = 0]_vars
    /\ [][\A c \in Callers :
             kpc[c] = "s_check" /\ ~multiple_instances /\ procs > 0
                => kpc'[c] \in {"s_check", "ret"}]_vars
    /\ [](~multiple_instances =>
             Cardinality({c \in Callers : kpc[c] = "s_spawn"}) <= 1)

\* C20 (as claimed): when close_ezcad returns from a call on a tracked window
\* id, the id is no longer in instances, whether window.close() succeeded or
\* raised.
CloseReturns(c) == kpc[c] \in {"c_wait", "c_close", "c_del"} /\ kpc'[c] = "ret"
C20_CloseUntracks ==
    [][\A c \in Callers :
          CloseReturns(c) /\ kwin[c] \in instances => kwin[c] \notin instances']_vars

\* C21 (as claimed): send_command with a command other than 'red' and 'mark'
\* returns False, sends nothing to the window and leaves instances as it was,
\* for a real and for a simulated session alike.
SendReturns(c) == kpc[c] \in {"m_wait", "m_type"} /\ kpc'[c] = "ret"
C21_UnknownCommandFails ==
    [][\A c \in Callers :
          SendReturns(c) /\ kloc[c].cmd \notin Recognized =>
             /\ kloc'[c].ret = "False"
             /\ kloc'[c].fx = {}
             /\ instances' = instances]_vars

\* Session scenario: a session is started while no other call is in progress;
\* the sessions are then commanded and closed by concurrent callers, with ids
\* the controller tracks and ids it does not.
InStart(c) == kpc[c] \in {"s_check", "s_spawn", "s_connect", "s_store"}
NoStart == \A d \in Callers : ~InStart(d)
\* the commands the callers send: one that maps to a key and one that does not
UseCommands == {"mark", "other"}
InitUse == Init /\ max_threads = 1 /\ ~batch_process /\ NoWatcher
NextUse ==
    \/ Tick
    \/ \E c \in Callers : (\A d \in Callers : kpc[d] = "idle") /\ K_start_call(c)
    \/ \E c \in Callers : procs < MaxProcs /\ K_start_spawn(c)
    \/ \E c \in Callers, wid \in Times, cmd \in UseCommands :
          NoStart /\ K_send_call(c, wid, cmd)
    \/ \E c \in Callers, wid \in Times : NoStart /\ K_close_call(c, wid)
    \/ \E c \in Callers : CallerStep(c)
SpecUse == InitUse /\ [][NextUse]_vars

\* C22: send_command and close_ezcad called directly with a window id that is
\* not in instances when the method looks it up return False, send nothing to
\* a window and leave instances unchanged.
C22_UnknownIdFails ==
    [][\A c \in Callers :
          (SendReturns(c) \/ CloseReturns(c)) /\ kwin[c] \notin instances =>
             /\ kloc'[c].ret = "False"
             /\ kloc'[c].fx = {}
             /\ instances' = instances
             /\ lock' = lock]_vars

\* Two callers closed the same simulated session: the first close_ezcad
\* returned True, the second found the id no longer tracked and returned False.
C22_Witness ==
    \E c, d \in Callers :
       /\ ~is_windows
       /\ kpc[c] = "ret" /\ kloc[c].op = "close" /\ kloc[c].ret = "True"
       /\ kpc[d] = "ret" /\ kloc[d].op = "close" /\ kloc[d].ret = "False"
       /\ kwin[c] = kwin[d]
       /\ kwin[d] \notin instances

\* Shutdown scenario: the GUI thread calls close_all_ezcad (on_closing) while
\* one other caller at a time starts a session and one at a time closes a
\* single session.
NoOp(op) == \A d \in Callers : kloc[d].op # op
InitAll == Init /\ max_threads = 1 /\ ~batch_process /\ NoWatcher
NextAll ==
    \/ Tick
    \/ \E c \in Callers : NoOp("start") /\ K_start_call(c)
    \/ \E c \in Callers : procs < MaxProcs /\ K_start_spawn(c)
    \/ \E c \in Callers, wid \in Times : NoOp("close") /\ K_close_call(c, wid)
    \/ \E c \in Callers : NoOp("close_all") /\ K_all_call(c)
    \/ \E c \in Callers : StartStep(c) \/ CloseStep(c)
    \/ \E c \in Callers : AllStep(c)
SpecAll == InitAll /\ [][NextAll]_vars

\* C23: close_all_ezcad calls close_ezcad for every id that was a key of
\* instances at its snapshot, also after a close returned False, and returns
\* the number of those calls that returned True; when all of them did and no
\* start_ezcad stored a session since the snapshot, instances is empty at the
\* return.
AllReturns(c) == kpc[c] = "a_loop" /\ kpc'[c] = "ret"
C23_CloseAllCounts ==
    /\ [][\A c \in Callers : AllReturns(c) =>
             /\ kloc[c].tried = kloc[c].snap
             /\ kloc'[c].count = Cardinality(kloc[c].ok)
             /\ kloc[c].ok = kloc[c].snap /\ ~kloc[c].stored => instances' = {}]_vars
    /\ [](\A c \in Callers : kloc[c].op = "close_all" =>
             /\ kloc[c].ok \subseteq kloc[c].tried
             /\ kloc[c].tried \subseteq kloc[c].snap
             /\ kloc[c].ids = kloc[c].snap \ kloc[c].tried
             /\ kloc[c].count <= Cardinality(kloc[c].snap))

\* close_all_ezcad found two sessions, one close failed, the other was still
\* attempted and succeeded, and 1 was returned.
C23_Witness ==
    \E c \in Callers :
       /\ kpc[c] = "ret"
       /\ kloc[c].op = "close_all"
       /\ Cardinality(kloc[c].snap) = 2
       /\ kloc[c].tried = kloc[c].snap
       /\ kloc[c].count = 1

\* Launch scenario: one start_ezcad call at a time, each made after the
\* previous one has returned, on either platform, while the clock runs and the
\* settings dialog toggles multiple instances.
InitStart == Init /\ max_threads = 1 /\ ~batch_process /\ NoWatcher
NextStart ==
    \/ Tick
    \/ \E mi \in BOOLEAN : apply_settings(monitoring_enabled, auto_trigger, mi, watch_dir_ok)
    \/ \E c \in Callers :
          (\A d \in Callers : kpc[d] = "idle") /\ procs < MaxProcs /\ K_start_call(c)
    \/ \E c \in Callers : K_start_spawn(c)
    \/ \E c \in Callers : StartStep(c)
SpecStart == InitStart /\ [][NextStart]_vars
\* A thread inside start_ezcad keeps running.
FairStart == SpecStart /\ \A c \in Callers : WF_vars(K_start_spawn(c) \/ StartStep(c))

\* C24: a start_ezcad call returns; its connect loop makes at most
\* PollAttempts passes, and when no pass finds the window the call returns
\* None, instances is as before and the spawned process is still running.
ConnectFails(c) == kpc[c] = "s_connect" /\ kpc'[c] = "ret"
C24_StartTerminates ==
    /\ \A c \in Callers : InStart(c) ~> kpc[c] = "ret"
    /\ [](\A c \in Callers : kloc[c].tries <= PollAttempts)
    /\ [][\A c \in Callers : kpc[c] = "s_connect" /\ kloc'[c] # kloc[c] =>
             kloc'[c].tries = kloc[c].tries + 1 \/ kpc'[c] = "ret"]_vars
    /\ [][\A c \in Callers : ConnectFails(c) =>
             /\ kloc[c].tries = PollAttempts
             /\ kloc'[c].ret = NoStr
             /\ kwin'[c] = None
             /\ instances' = instances
             /\ procs' = procs
             /\ procs > 0]_vars

\* A start_ezcad call spawned the process, never found its window in
\* PollAttempts passes and returned None.
C24_Witness ==
    \E c \in Callers :
       /\ kpc[c] = "ret"
       /\ kloc[c].op = "start"
       /\ kloc[c].tries = PollAttempts
       /\ kloc[c].ret = NoStr
       /\ procs = 1
       /\ instances = {}

\* Simulation scenario: off Windows, the controller is used by one call at a
\* time; a session is started only while none is tracked.
Quiet == \A d \in Callers : kpc[d] \in {"idle", "ret"}
InitSim == Init /\ ~is_windows /\ max_threads = 1 /\ ~batch_process /\ NoWatcher
NextSim ==
    \/ Tick
    \/ \E c \in Callers : Quiet /\ instances = {} /\ K_start_call(c)
    \/ \E c \in Callers, wid \in Times, cmd \in Commands : Quiet /\ K_send_call(c, wid, cmd)
    \/ \E c \in Callers, wid \in Times : Quiet /\ K_close_call(c, wid)
    \/ \E c \in Callers : K_start_store(c) \/ K_send_lookup(c) \/ K_close_lookup(c) \/ K_resume(c)
SpecSim == InitSim /\ [][NextSim]_vars

\* C25: off Windows, on a controller that tracked no session, start_ezcad
\* returns a window id it tracks, send_command('mark') on that id returns True
\* and leaves it tracked, close_ezcad on it returns True, and instances is
\* empty after the close.
C25_SimulatedRoundTrip ==
    /\ [][\A c \in Callers : StartStores(c) /\ instances = {} =>
             /\ kloc'[c].ret = "id"
             /\ kwin'[c] # None
             /\ instances' = {kwin'[c]}]_vars
    /\ [][\A c \in Callers :
             SendReturns(c) /\ kloc[c].cmd = "mark" /\ kwin[c] \in instances =>
                /\ kloc'[c].ret = "True"
                /\ instances' = instances]_vars
    /\ [][\A c \in Callers : CloseReturns(c) /\ kwin[c] \in instances =>
             /\ kloc'[c].ret = "True"
             /\ instances' = {}]_vars

\* The session one caller's send_command('mark') reported success for has been
\* closed with success by the other caller's close_ezcad, and none is tracked.
C25_Witness ==
    \E c, d \in Callers :
       /\ ~is_windows
       /\ kpc[c] = "ret" /\ kloc[c].op = "send" /\ kloc[c].ret = "True"
       /\ kpc[d] = "ret" /\ kloc[d].op = "close" /\ kloc[d].ret = "True"
       /\ kwin[c] = kwin[d]
       /\ instances = {}

\* ------------------------------------------------------------ debounce scenario
\* Monitoring is started once from the Start Monitoring button; then the clock,
\* counted from that moment, advances and the observer hands events to the
\* handler.
InitDebounce == Init /\ SimConfig

NextDebounce ==
    \/ G_start_monitoring(file_pattern_excel)
    \/ SW_check \/ SW_dir \/ SW_new \/ SW_start \/ SW_flag
    \/ G_resume
    \/ is_running /\ WallTick
    \/ events < MaxEvents /\ \E f \in Files, type \in EventTypes : on_event(f, type)

SpecDebounce == InitDebounce /\ [][NextDebounce]_vars

DebounceTicks == DebounceSeconds * TicksPerSecond

\* The step hands the handler an event for path f
EventFor(f) ==
    /\ events' = events + 1
    /\ seen'[f] = wall
    /\ \A g \in Files \ {f} : seen'[g] = seen[g]

\* C26: for every path, any two notifications the handler passed on for that
\* path are at least 2 seconds apart, whatever their event types; and an event
\* that arrives 2 seconds or more after the last event seen for its path is
\* passed on: the callback is called once for it.
C26_Debounce ==
    /\ [](\A f \in Files : \A e1, e2 \in emitted[f] :
            e1 # e2 => \/ e1.at - e2.at >= DebounceTicks
                       \/ e2.at - e1.at >= DebounceTicks)
    /\ [][\A f \in Files :
            (EventFor(f) /\ seen[f] # NoTime /\ wall - seen[f] >= DebounceTicks)
               => /\ \E type \in EventTypes :
                        emitted'[f] = emitted[f] \cup {[at |-> wall, type |-> type]}
                  /\ emitted'[f] # emitted[f]
                  /\ notified' = notified + 1]_vars

\* Three events for one path and none for another: the first passed on, one
\* dropped, and the one that came 3 seconds after the first passed on
C26_Witness ==
    \E f \in Files :
        /\ events = 3
        /\ \A g \in Files \ {f} : seen[g] = NoTime
        /\ {e.at : e \in emitted[f]} = {0, 3 * TicksPerSecond}
        /\ notified = 2

\* ------------------------------------------------- watcher life-cycle scenario
\* The GUI thread starts and stops monitoring and changes the settings between
\* handlers, while the observer hands events to the handler; the clock stands.
InitLife == Init /\ max_threads = 1 /\ ~is_windows /\ ~batch_process /\ ~auto_trigger

NextLife ==
    \/ gui.pc = "idle"
          /\ \E m, wd \in BOOLEAN : apply_settings(m, auto_trigger, multiple_instances, wd)
    \/ G_start_monitoring(file_pattern_excel)
    \/ G_start_automation
    \/ G_stop_monitoring
    \/ SW_check \/ SW_dir \/ SW_new \/ SW_start \/ SW_flag
    \/ TW_check \/ TW_join \/ TW_flag
    \/ G_resume
    \/ O_exit
    \/ events < MaxEvents /\ \E f \in Files, type \in EventTypes : on_event(f, type)

SpecLife == InitLife /\ [][NextLife]_vars

\* The GUI thread is inside start_watching / has returned from stop_watching
InStartWatching == gui.pc \in {"w_check", "w_dir", "w_new", "w_start", "w_flag"}
StopReturned == gui.pc = "ret" /\ gui.op = "_stop_monitoring"

\* C27: when stop_watching has returned the watcher is not running and the
\* observer's thread has ended; and a notification is put on the file queue
\* only while the watcher is running or inside a call of start_watching, so
\* none is between the return of stop_watching and the next start_watching.
C27_StopIsFinal ==
    /\ [](StopReturned => ~is_running /\ ~Dispatching)
    /\ [][Len(file_queue') > Len(file_queue) => is_running \/ InStartWatching]_vars

\* stop_watching has returned after an observer that had put a notification on
\* the queue was stopped
C27_Witness ==
    StopReturned /\ ~is_running /\ observer = "off" /\ forwarded > 0 /\ Len(file_queue) > 0

\* start_watching has returned False
StartFailed == gui.pc = "ret" /\ gui.ret = "False"

\* C28: start_watching with a watch directory that is missing or does not
\* exist returns False without creating or starting an observer and without
\* setting is_running; when it has returned False the watcher is not running
\* and no observer thread exists; and the caller goes on without calling it
\* again.
C28_InvalidDirectoryFails ==
    /\ [][(gui.pc = "w_dir" /\ ~watch_dir_ok /\ gui' # gui)
             => /\ gui'.pc = "ret" /\ gui'.ret = "False"
                /\ UNCHANGED <<is_running, observer, evVars>>]_vars
    /\ [](StartFailed => ~is_running /\ observer = "off")
    /\ [][(StartFailed /\ gui' # gui)
             => gui'.pc = "idle" /\ ~is_running' /\ observer' = "off"]_vars

\* start_watching, called with Monitoring.enabled set and an invalid watch
\* directory, has returned False
C28_Witness ==
    StartFailed /\ ~watch_dir_ok /\ monitoring_enabled /\ ~is_running /\ observer = "off"

\* C29: start_watching called while the watcher is running returns at once
\* without creating an observer or a handler and with is_running still true,
\* and what it returns is a success for the caller: the value passes the test
\* `if self.directory_watcher.start_watching():`.
C29_StartWhileRunning ==
    [][(gui.pc = "w_check" /\ is_running /\ gui' # gui)
          => /\ gui'.pc = "ret"
             /\ UNCHANGED <<is_running, observer, evVars>>
             /\ Truthy(gui'.ret)]_vars

\* --------------------------------------------------------- file-pattern scenario
\* A pattern string is typed into the Excel pattern field, monitoring is
\* started, and the observer reports one created file.
InitPattern == Init /\ SimConfig

NextPattern ==
    \/ gui.pc = "idle" /\ start_monitoring_button
          /\ \E s \in PatternStrings : G_start_monitoring(s)
    \/ SW_check \/ SW_dir \/ SW_new \/ SW_start \/ SW_flag
    \/ G_resume
    \/ src_path = <<>> /\ Dispatching /\ \E path \in Paths : on_created(path, 1)

SpecPattern == InitPattern /\ [][NextPattern]_vars

\* str.lower() on the characters of the model
lower(s) == [i \in 1..Len(s) |-> IF s[i] = "X" THEN "x" ELSE s[i]]

\* The pattern string is fragments of the form *.ext joined by ";"
IsGlobList(s) ==
    /\ s # <<>> /\ s[1] = "*" /\ s[Len(s)] # ";"
    /\ \A i \in 1..Len(s) :
          /\ s[i] # " "
          /\ s[i] = "*" => (i = 1 \/ s[i - 1] = ";") /\ i < Len(s) /\ s[i + 1] = "."
          /\ s[i] = ";" => i < Len(s) /\ s[i + 1] = "*"

\* The suffixes written back as a pattern string: "*" before each, ";" between
RECURSIVE GlobOf(_)
GlobOf(sufs) ==
    IF sufs = <<>> THEN <<>>
    ELSE IF Len(sufs) = 1 THEN <<"*">> \o sufs[1]
    ELSE <<"*">> \o sufs[1] \o <<";">> \o GlobOf(Tail(sufs))

\* The handler's patterns that came from the Excel pattern string
ExcelPatterns == SubSeq(file_patterns, 1, Len(file_patterns) - Len(_parse_patterns(file_pattern_ezd)))

\* C30: a pattern string of fragments *.ext joined by ";" is parsed into the
\* fragments without their leading "*"; and a path is accepted exactly when it
\* ends, letter case ignored, with one of the handler's suffixes.
C30_PatternMatching ==
    /\ (file_patterns # <<>> /\ IsGlobList(file_pattern_excel))
          => /\ GlobOf(ExcelPatterns) = file_pattern_excel
             /\ \A i \in 1..Len(ExcelPatterns) :
                   /\ startswith(ExcelPatterns[i], <<".">>)
                   /\ \A k \in 1..Len(ExcelPatterns[i]) : ExcelPatterns[i][k] # ";"
    /\ src_path # <<>>
          => (valid <=> \E i \in 1..Len(file_patterns) :
                            endswith(lower(src_path), lower(file_patterns[i])))

\* ---------------------------------------------------------------- shared frame
\* The spreadsheets of the sharing scenario: distinct .xlsx base names
Sheets == {3 * (i - 1) + 1 : i \in 1..NumSheets}

\* Batch mode with spreadsheets of different names and one marking file; stop
\* and start again while a worker is still inside process_excel, so that two
\* workers run job bodies side by side.
InitShare == Init /\ batch_process /\ NoWatcher

NextShare ==
    \/ Len(heap) < MaxJobs /\ \E f \in Sheets \cup {2} : add_job(f, FileType(f), DefaultPriority)
    \/ Len(heap) + spawned < MaxJobs + MaxThreads /\ start_processing
    \/ should_run /\ stops < MaxStops /\ stop_processing
    \/ \E w \in Workers : WorkerStep(w) \/ X_load(w) \/ BatchStep(w)

SpecShare == InitShare /\ [][NextShare]_vars

\* C31: the batches a spreadsheet job iterates over were split from the frame
\* of the file that this job itself loaded (the file of its own record), under
\* every interleaving of the workers.
C31_OwnData ==
    \A w \in Workers :
        wpc[w] \in {"xl_loop", "xl_rows"} => wsplit[w] = heap[wjob[w]].file_path

\* ---------------------------------------------------------------- clear_completed_jobs
MaxAge    == 1   \* the largest max_age_hours passed to clear_completed_jobs
MaxSweeps == 1   \* calls of clear_completed_jobs

DictDel(d, ks) == [x \in DOMAIN d \ ks |-> d[x]]

\* lines 115-120: the ids whose record is COMPLETED, FAILED or CANCELED and
\* was added more than max_age_hours before now
jobs_to_remove(max_age_hours) ==
    {k \in DOMAIN jobs : /\ heap[jobs[k]].status \in Terminal
                         /\ now - heap[jobs[k]].added_time > max_age_hours}

\* QueueManager.clear_completed_jobs(max_age_hours), called on the GUI thread
\* (the Clear Completed button passes no argument: 24 hours). The loop reads
\* each record once and deletes the ids selected; it returns their number.
\* The GUI thread is not inside cancel_job when it makes the call.
clear_completed_jobs(max_age_hours) ==
    /\ cpc = "idle"
    /\ jobs' = DictDel(jobs, jobs_to_remove(max_age_hours))
    /\ sweep' = [calls |-> sweep.calls + 1, max_age_hours |-> max_age_hours,
                 removed_count |-> Cardinality(jobs_to_remove(max_age_hours))]
    /\ UNCHANGED <<now, heap, job_queue, should_run, cfgVars, wsplit, prof, hVars, kVars, setVars,
                   brVars, ctlVars, spawned, workVars, canVars, invoked, stops>>

\* The sweep against add_job, cancel_job and the worker, the clock running.
InitSweep == Init /\ SimConfig

NextSweep ==
    \/ Tick
    \/ Len(heap) < MaxJobs /\ AddDefault
    \/ start_processing
    \/ \E k \in CancelIds : C_test(k)
    \/ C_set
    \/ C_return
    \/ sweep.calls < MaxSweeps /\ \E h \in 0..MaxAge : clear_completed_jobs(h)
    \/ \E w \in Workers : WorkerStep(w) \/ EntireStep(w)

SpecSweep == InitSweep /\ [][NextSweep]_vars

\* the records the collection holds
Held == {jobs[k] : k \in DOMAIN jobs}

\* C32: a step of clear_completed_jobs removes from the collection exactly the
\* COMPLETED, FAILED and CANCELED records older than the threshold (every
\* terminal record when the threshold is 0), returns their number and changes
\* no record; no other step removes a record from the collection.
C32_SweepContract ==
    [][ IF sweep' # sweep
        THEN /\ Held \ Held' =
                  {u \in Held : /\ heap[u].status \in Terminal
                                /\ \/ sweep'.max_age_hours = 0
                                   \/ now - heap[u].added_time > sweep'.max_age_hours}
             /\ sweep'.removed_count = Cardinality(Held \ Held')
             /\ heap' = heap
        ELSE Held \ Held' = {} ]_vars

\* the two parts of C32 apart: what the sweep removes, what other steps remove
C32_SweepOnly == [][ sweep' = sweep => Held \ Held' = {} ]_vars
C32_SweepExact ==
    [][ sweep' # sweep =>
           Held \ Held' = {u \in Held : /\ heap[u].status \in Terminal
                                        /\ \/ sweep'.max_age_hours = 0
                                           \/ now - heap[u].added_time > sweep'.max_age_hours} ]_vars

\* ---------------------------------------------------------------- timestamps
\* C33: in every state a record's start_time is set exactly when its status is
\* RUNNING, COMPLETED or FAILED, and its end_time exactly when its status is
\* COMPLETED or FAILED.
C33_Timestamps ==
    \A u \in 1..Len(heap) :
        /\ heap[u].start_time # None <=> heap[u].status \in {RUNNING, COMPLETED, FAILED}
        /\ heap[u].end_time # None <=> heap[u].status \in {COMPLETED, FAILED}

\* the same for the records no worker is working on
C33_TimestampsAtRest ==
    \A u \in 1..Len(heap) :
        (\A w \in Workers : wjob[w] # u) =>
            /\ heap[u].start_time # None <=> heap[u].status \in {RUNNING, COMPLETED, FAILED}
            /\ heap[u].end_time # None <=> heap[u].status \in {COMPLETED, FAILED}

\* ---------------------------------------------------------------- at most once
\* the record has been RUNNING before
HasRun(u) == heap[u].status \in {RUNNING, COMPLETED, FAILED} \/ heap[u].start_time # None

\* C36: the processor is invoked at most once per Job object, and no worker
\* sets a record RUNNING (line 201) that has been RUNNING before, whatever the
\* number of workers and of queue entries per id.
C36_AtMostOnce ==
    [][ /\ \A u \in 1..Len(heap') : invoked'[u] <= 1
        /\ \A w \in Workers :
              wpc[w] = "mark" /\ wpc'[w] = "stamp" => ~HasRun(wjob[w]) ]_vars

\* ---------------------------------------------------------------- debounce window
\* the time of the last notification passed on for path f (NoTime: none yet)
LastEmitted(f) ==
    IF emitted[f] = {} THEN NoTime
    ELSE CHOOSE t \in {e.at : e \in emitted[f]} : \A e \in emitted[f] : e.at <= t

C40_StopCleared ==
    [][ /\ should_run' => ~stop_requested'
        /\ \A w \in Workers :
              (should_run /\ wpc[w] = "xl_loop" /\ wpc'[w] = "store") => wbatch[w] = 0 ]_vars

\* the second part alone: a job started after the restart leaves the loop
\* with a batch left
C40_AllBatches ==
    [][ \A w \in Workers :
          (should_run /\ wpc[w] = "xl_loop" /\ wpc'[w] = "store") => wbatch[w] = 0 ]_vars

\* ---------------------------------------------------------------- sessions of the spreadsheet path
\* worker w is inside _process_entire_file or the batch loop of process_excel
InSheet(w) == wpc[w] \in {"xl_start", "xl_close", "xl_loop", "xl_rows"}

\* C38: a worker leaves the spreadsheet path holding no session: close_ezcad
\* was called for the one it started; and in simulation mode the path leaves
\* the session collection as it found it: the session it starts is a new entry
\* of the collection and its close_ezcad removes that entry and no other.
C38_NoSessionLeak ==
    [][\A w \in Workers :
          /\ (InSheet(w) /\ wpc'[w] = "store") => wwin'[w] = None
          /\ (~is_windows /\ InSheet(w) /\ wwin[w] = None /\ wwin'[w] # None) =>
                /\ wwin'[w] \notin instances
                /\ instances' = instances \cup {wwin'[w]}
          /\ (~is_windows /\ InSheet(w) /\ wwin[w] # None /\ wwin'[w] = None) =>
                /\ wwin[w] \in instances
                /\ instances' = instances \ {wwin[w]} ]_vars

\* the first part alone: close_ezcad is called for every session started
C38_CloseCalled ==
    [][\A w \in Workers : (InSheet(w) /\ wpc'[w] = "store") => wwin'[w] = None]_vars

\* ---------------------------------------------------------------- the controller lock
\* get_active_instances() is entered
K_get_call(c) ==
    /\ kpc[c] = "idle"
    /\ KGoto(c, "g_wait", None)
    /\ kloc' = [kloc EXCEPT ![c].op = "get"]
    /\ UNCHANGED <<now, instances, multiple_instances, procs, lock, appVars>>

\* with self.lock: return self.instances.copy()
K_get_copy(c) ==
    /\ kpc[c] = "g_wait"
    /\ lock = NoLock
    /\ KReturn(c, None, "copy", {})
    /\ UNCHANGED <<now, instances, multiple_instances, procs, lock, appVars>>

\* Lock scenario: on Windows, where send_command and close_ezcad keep the lock
\* across their calls into the window system, every caller calls start_ezcad,
\* send_command, close_ezcad and get_running_instances at any time; the clock
\* stands, so every session has the one window id, one start_ezcad call is
\* under way at a time, and so is one close_all_ezcad call, which only the
\* window's on_closing makes.
InitLock == Init /\ is_windows /\ max_threads = 1 /\ ~batch_process /\ NoWatcher

\* a step of caller c inside a method; the window of a new process shows at
\* the first poll of start_ezcad
LockStep(c) ==
    \/ K_start_check(c) \/ K_start_spawn(c)
    \/ K_start_connect(c) /\ kpc'[c] # "s_connect"
    \/ K_start_store(c)
    \/ K_send_lookup(c) \/ K_send_type(c)
    \/ CloseStep(c)
    \/ AllStep(c)
    \/ K_get_copy(c)
    \/ K_resume(c)

NextLock ==
    \/ \E c \in Callers : NoStart /\ procs < MaxProcs /\ K_start_call(c)
    \/ \E c \in Callers : K_send_call(c, now, "mark")
    \/ \E c \in Callers : K_close_call(c, now)
    \/ \E c \in Callers : (\A d \in Callers : kloc[d].op # "close_all") /\ K_all_call(c)
    \/ \E c \in Callers : K_get_call(c)
    \/ \E c \in Callers : LockStep(c)

SpecLock == InitLock /\ [][NextLock]_vars
\* Every thread inside a controller method keeps running, and a thread waiting
\* for the lock gets it when the lock is free again and again.
FairLock == SpecLock /\ \A c \in Callers : SF_vars(LockStep(c))

\* caller c is inside a controller method
InCall(c) == kpc[c] \notin {"idle", "ret"}

MaxValLen == 3                    \* bound: characters in an option value
ValChars  == {"a", "%"}
OptValues == UNION {[1..n -> ValChars] : n \in 0..MaxValLen}
ProfKeys     == {"watch_directory", "file_pattern_excel"}

\* BasicInterpolation.before_set, which ConfigParser.set applies to the value:
\* every "%" must be part of a "%%" pair ("%(name)s" is outside the alphabet)
RECURSIVE before_set(_)
before_set(value) ==
    IF value = <<>> THEN TRUE
    ELSE IF Head(value) # "%" THEN before_set(Tail(value))
    ELSE Len(value) >= 2 /\ value[2] = "%" /\ before_set(Tail(Tail(value)))

\* BasicInterpolation.before_get on a value that passed before_set: what
\* config[section][key] and config.get return: "%%" reads as "%"
RECURSIVE before_get(_)
before_get(value) ==
    IF value = <<>> THEN <<>>
    ELSE IF Head(value) # "%" THEN <<Head(value)>> \o before_get(Tail(value))
    ELSE <<"%">> \o before_get(Tail(Tail(value)))

profFrame == <<now, heap, jobs, job_queue, should_run, cfgVars, wsplit, sweep, hVars, kVars,
               setVars, brVars, ctlVars, spawned, workVars, canVars, invoked, stops>>

\* ConfigManager.set(section, key, value), lines 76-80: ConfigParser.set raises
\* ValueError for a value before_set rejects
set(section, key, value) ==
    /\ prof.pc = "new"
    /\ IF before_set(value)
       THEN prof' = [prof EXCEPT !.config[section] =
                        [k \in DOMAIN @ \cup {key} |-> IF k = key THEN value ELSE @[k]]]
       ELSE UNCHANGED prof
    /\ UNCHANGED profFrame

\* lines 89-91: config_dict[section] = dict(self.config[section]) reads every
\* option through the section proxy, that is through before_get
config_dict(config) ==
    [s \in DOMAIN config |-> [k \in DOMAIN config[s] |-> before_get(config[s][k])]]

\* save_profile(profile_name), lines 83-104: the dictionary, with the
\* Metadata entry added, is written as JSON
save_profile ==
    /\ prof.pc = "new"
    /\ prof' = [prof EXCEPT !.pc = "saved",
                            !.file = [s \in DOMAIN prof.config \cup {"Metadata"} |->
                                         IF s = "Metadata"
                                         THEN [k \in {"created", "profile_name"} |-> <<"a">>]
                                         ELSE config_dict(prof.config)[s]]]
    /\ UNCHANGED profFrame

\* load_profile(profile_name) in a fresh ConfigManager, lines 106-128: every
\* section but Metadata is copied with new_config.set(section, key, str(value));
\* when a set raises, load_profile raises and self.config is not replaced
load_profile ==
    /\ prof.pc = "saved"
    /\ LET copied == DOMAIN prof.file \ {"Metadata"} IN
       IF \A s \in copied : \A k \in DOMAIN prof.file[s] : before_set(prof.file[s][k])
       THEN prof' = [prof EXCEPT !.pc = "loaded",
                                 !.fresh = [s \in copied |-> prof.file[s]]]
       ELSE prof' = [prof EXCEPT !.pc = "loaded", !.raised = TRUE]
    /\ UNCHANGED profFrame

InitProfile == Init /\ SimConfig

NextProfile ==
    \/ \E s \in ProfSections, k \in ProfKeys, v \in OptValues : set(s, k, v)
    \/ save_profile
    \/ load_profile

SpecProfile == InitProfile /\ [][NextProfile]_vars

\* C35: after save_profile and load_profile into a fresh configuration object,
\* the loaded configuration has the sections of the saved one, and every section
\* the same keys with the same values as the saved configuration returns them.
C35_ProfileRoundTrip ==
    prof.pc = "loaded" =>
        /\ ~prof.raised
        /\ config_dict(prof.fresh) = config_dict(prof.config)

\* ---------------------------------------------------------------- progress of the queue
\* One start_processing and no stop: jobs are added before and after it while
\* the clock runs, and the workers are scheduled fairly.
InitRun == Init /\ SimConfig

NextRun ==
    \/ Tick
    \/ Len(heap) < MaxJobs /\ AddDefault
    \/ start_processing
    \/ \E w \in Workers : WorkerStep(w) \/ EntireStep(w)

SpecRun == InitRun /\ [][NextRun]_vars
FairRun == SpecRun /\ \A w \in Workers : WF_vars(WorkerStep(w) \/ EntireStep(w))

\* C34: while processing is on, every job that add_job created and that is
\* PENDING is COMPLETED or FAILED at some later time.
C34_PendingFinishes ==
    \A u \in 1..MaxJobs :
        (should_run /\ u <= Len(heap) /\ heap[u].status = PENDING)
           ~> (u <= Len(heap) /\ heap[u].status \in {COMPLETED, FAILED})

\* the same for the jobs the collection holds
C34_HeldFinishes ==
    \A u \in 1..MaxJobs :
        (should_run /\ u \in Held /\ heap[u].status = PENDING)
           ~> (u \in Held => heap[u].status \in {COMPLETED, FAILED})

\* ---------------------------------------------------------------- the whole program
Next ==
    \/ Tick
    \/ Len(heap) < MaxJobs /\ AddPrio
    \/ start_processing
    \/ stops < MaxStops /\ stop_processing
    \/ stops < MaxStops /\ StopButton
    \/ \E k \in CancelIds : C_test(k)
    \/ C_set
    \/ C_return
    \/ \E w \in Workers : WorkerStep(w) \/ EntireStep(w) \/ BatchStep(w)
    \/ \E m, a, mi, wd \in BOOLEAN : apply_settings(m, a, mi, wd)
    \/ _start_monitoring
    \/ _stop_monitoring
    \/ notified < MaxNotes /\ \E f \in Files : _file_callback(f)
    \/ \E b \in Bridges : BridgeStep(b)
    \/ \E c \in Callers : K_start_call(c)
    \/ \E c \in Callers : procs < MaxProcs /\ K_start_spawn(c)
    \/ \E c \in Callers, wid \in Times, cmd \in Commands : K_send_call(c, wid, cmd)
    \/ \E c \in Callers, wid \in Times : K_close_call(c, wid)
    \/ \E c \in Callers : CallerStep(c)
    \/ \E c \in Callers : K_all_call(c)
    \/ \E c \in Callers : AllStep(c)
    \/ \E c \in Callers : K_get_call(c) \/ K_get_copy(c)
    \/ sweep.calls < MaxSweeps /\ \E h \in 0..MaxAge : clear_completed_jobs(h)
    \/ \E s \in ProfSections, k \in ProfKeys, v \in OptValues : set(s, k, v)
    \/ save_profile
    \/ load_profile
    \/ WallTick
    \/ events < MaxEvents /\ \E f \in Files, type \in EventTypes : on_event(f, type)
    \/ events < MaxEvents /\ Dispatching
          /\ \E path \in Paths, f \in Files : on_created(path, f)
    \/ gui.pc = "idle" /\ start_monitoring_button
          /\ \E s \in PatternStrings : G_start_monitoring(s)
    \/ G_start_automation
    \/ G_stop_monitoring
    \/ GuiStep
    \/ O_exit

Spec == Init /\ [][Next]_vars

====
